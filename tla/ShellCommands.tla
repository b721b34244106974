--------------------------- MODULE ShellCommands ---------------------------
(***************************************************************************)
(* The handlers of the shell's commands (shell.c, cmd_cmds): how many      *)
(* words a handler takes before it prints its usage, how many its usage    *)
(* text documents, and then, for each path through its body, which words   *)
(* it uses and what it does to the host, to the command slot and to the    *)
(* kernel.  Word 0 is the command itself.  The values of the words and of  *)
(* what the kernel answers only decide which path is taken; what is        *)
(* printed is left out, and the shell's variables are those of ShellVars.  *)
(***************************************************************************)
EXTENDS Naturals

\* The longest documented line: set_keyboard_layout -t type code{128}.
MaxWords == 131

-----------------------------------------------------------------------------
\* What handlers do past their guard: sets of paths, a path being its steps.
\*   call        kernel code between COVERAGE_ON and COVERAGE_OFF, once or often
\*   bare, set   kernel code without them; a variable of the kernel assigned
\*   slot, clear shell_run_cmd; EMPTY stored in the slot after it
\*   open, fail  fopen, and fopen that returned NULL
\*   use, close  the file is used; fclose
\*   refuse      the file is rejected
\*   alloc, free malloc, free;   keep: the kernel keeps the memory
Nothing == {<<>>}

Calls == {<<"call">>}

Bare == {<<"bare">>}

Sets == {<<"set">>}

Submits == {<<"slot", "clear">>}

\* A file copied to memory for the kernel.
Lends == {<<"open", "use", "alloc", "close", "call", "free">>}

\* fopen returned NULL: a message, or the file is used all the same.
NoFile == {<<"fail">>}

NullFile == {<<"fail", "use">>}

\* cmd_ramdisk_init.
Images == {<<"open", "use", "refuse">>, <<"open", "use", "close", "call">>}

\* cmd_disk_add: the memory is the vdisk, which the kernel keeps or refuses.
Disks == {<<"alloc", "call">>, <<"alloc", "call", "keep", "call">>}

\* cmd_umka_boot: the memory is the stack of cmd_runner.
Boots == {<<"call">>, <<"call", "alloc", "bare", "keep">>}

\* cmd_net_add_device: the memory is the card, which vnet_init attaches.
Cards == {<<"call">>, <<"alloc", "keep", "call">>}

\* cmd_acpi_preload_table, cmd_bg_put_img.
Tables == {<<"open", "use", "alloc", "close", "keep">>}

Pictures == {<<"open", "use", "alloc", "close", "call">>}

\* cmd_get_keyboard_layout -f, cmd_set_keyboard_layout -f.
Saves == {<<"call", "fail">>, <<"call", "open", "use", "close">>}

Loads == {<<"open", "use", "close">>, <<"open", "use", "close", "call">>}

\* cmd_ls: ls_all, ls_range, ls_range of no entries.   cmd_read.   cmd_scrot.
Lists == {<<"alloc", "slot", "clear", "free">>}

Buffers == {<<"alloc", "call", "free">>}

Copies == {<<"alloc", "free">>}

\* cmd_write_devices_dat: dump_devices_dat of umkart.c.
Dumps == {<<"open", "call", "use", "close">>}

\* cmd_stat: the times are converted by kernel code.
Stats == {<<"call">>, <<"call", "bare">>}

-----------------------------------------------------------------------------
\* takes: word counts that pass the guard;   doc: those the usage text allows;
\* paths: the words used and the steps of each;  tests: words used if not NULL.
Ways(words, does) == {[words |-> words, steps |-> s] : s \in does}

Handler(takes, words, doc, does) ==
  [takes |-> takes, paths |-> Ways(words, does), tests |-> {}, doc |-> doc]

\* n words, all of them used and documented.
Exact(n, does) == Handler({n}, 1..(n - 1), {n}, does)

\* A handler with optional words after the first n.
From(n, doc, does) == Handler(n..MaxWords, 1..(n - 1), doc, does)

\* Rows of cmd_cmds: commands and what their handlers are like.
Rows(names, h) == names \X {h}

\* The usual handler calls the kernel on its n words.
Each(names, n) == Rows(names, Exact(n, Calls))

-----------------------------------------------------------------------------
SlotCommands ==
  Rows({"wait_for_idle", "wait_for_os_idle"}, Exact(1, Submits))
  \cup Rows({"csleep"}, Handler({2}, {1}, {1}, Submits))
  \cup Rows({"wait_for_window"}, Exact(2, Submits))

\* send_scancode stops at the first word that is no number.
BootCommands ==
  Rows({"umka_boot"}, Exact(1, Boots))
  \cup Rows({"umka_set_boot_params"},
            Handler(0..MaxWords, {0}, {1, 3, 5, 7, 9}, Nothing \cup Sets))
  \cup Rows({"send_scancode"}, From(2, 2..MaxWords, Nothing \cup Submits))
  \cup Rows({"var"}, Exact(2, Nothing))

I40Command ==
  Rows({"i40"}, [takes |-> 2..8, paths |-> Ways({1}, Calls), tests |-> 2..7,
                 doc |-> 2..8])

DiskCommands ==
  Rows({"ramdisk_init"}, Exact(2, NoFile \cup Images))
  \cup Rows({"disk_add"}, From(3, 3..5, Nothing \cup Disks))
  \cup Rows({"disk_del"}, Exact(2, Nothing \cup Calls))

TextCommands ==
  Each({"pwd"}, 1)
  \cup Rows({"set_pixel"}, From(4, 4..5, Calls))
  \cup Each({"write_text"}, 12)
  \cup Rows({"get_key"}, Handler(0..1, {}, {1}, Bare))

DumpCommands ==
  Rows({"dump_key_buff", "dump_win_stack"}, Handler(0..2, {}, 1..2, Nothing))
  \cup Rows({"dump_win_pos"}, From(1, 1..2, Nothing))
  \cup Rows({"dump_win_map"}, Handler(0..MaxWords, {}, {1}, Nothing))
  \cup Rows({"dump_wdata", "dump_appdata"}, From(2, 2..3, Nothing))

ThreadCommands ==
  Rows({"switch_to_thread"}, Exact(2, Sets))
  \cup Rows({"get"}, Exact(2, Nothing))
  \cup Rows({"set"}, Exact(3, Nothing \cup Sets))
  \cup Rows({"new_sys_thread"}, From(1, {1}, Bare))

MouseMoveCommand == Rows({"mouse_move"}, From(1, 1..12, Nothing \cup Submits))

ProcessCommands ==
  Each({"process_info"}, 2)
  \cup Each({"check_for_event"}, 1)
  \cup Each({"display_number"}, 15)

ColorCommands ==
  Each({"get_window_colors", "get_skin_height", "get_screen_area"}, 1)
  \cup Each({"set_window_colors"}, 11)

\* Faulty: set_skin is not told apart from a command without arguments.
SkinCommandsLoose ==
  Rows({"set_button_style", "set_skin"}, Handler(1..2, {1}, {2}, Calls))
  \cup Each({"get_skin_margins"}, 1)
  \cup Each({"set_screen_area"}, 5)

SkinCommands ==
  Each({"set_button_style", "set_skin"}, 2)
  \cup Each({"get_skin_margins"}, 1)
  \cup Each({"set_screen_area"}, 5)

\* Faulty: a layout file that is too short is not closed.
LayoutCommandsOpen ==
  Rows({"get_keyboard_layout"}, From(3, {3, 5}, Nothing \cup Calls \cup Saves))
  \cup Rows({"set_keyboard_layout"},
            [takes |-> {5, 131},
             paths |-> Ways(1..4, Nothing \cup NoFile
                                    \cup {<<"open", "use">>})
                       \cup Ways(1..131, Nothing \cup Calls),
             tests |-> {}, doc |-> {5, 131}])

\* The codes are taken from word 4 on, though they are documented to start at 3;
\* a line of 131 words does not fit into argv.
LayoutCommands ==
  Rows({"get_keyboard_layout"}, From(3, {3, 5}, Nothing \cup Calls \cup Saves))
  \cup Rows({"set_keyboard_layout"},
            [takes |-> {5, 131},
             paths |-> Ways(1..4, Nothing \cup NoFile \cup Loads)
                       \cup Ways(1..131, Nothing \cup Calls),
             tests |-> {}, doc |-> {5, 131}])

LanguageCommands ==
  Each({"get_keyboard_lang", "get_system_lang", "get_keyboard_mode"}, 1)
  \cup Rows({"set_keyboard_lang", "set_system_lang"}, Exact(2, Nothing \cup Calls))
  \cup Each({"set_keyboard_mode"}, 2)

FontCommands ==
  Each({"get_font_smoothing", "get_font_size"}, 1)
  \cup Each({"set_font_smoothing", "set_font_size"}, 2)
  \cup Each({"set_mouse_pos_screen"}, 3)

MouseCommands ==
  Each({"get_mouse_pos_screen", "get_mouse_pos_window",
        "get_mouse_buttons_state", "get_mouse_buttons_state_events"}, 1)

ButtonCommands ==
  Each({"button"}, 9)
  \cup Each({"kos_sys_misc_init_heap"}, 1)
  \cup Rows({"kos_sys_misc_load_file"}, From(2, 2..4, Nothing \cup Calls))

CursorCommands ==
  Each({"load_cursor_from_file", "set_cursor"}, 2)
  \cup Rows({"load_cursor_from_mem"}, Exact(2, NoFile \cup Lends))

ImageCommands ==
  Rows({"put_image"}, Exact(6, NullFile \cup Lends))
  \cup Rows({"put_image_palette"}, Exact(8, NullFile \cup Lends))
  \cup Rows({"draw_rect", "draw_line"}, From(6, 6..7, Calls))
  \cup Each({"get_screen_size"}, 1)

\* Faulty: the command's own name is not counted.
WindowCommandsShort ==
  Each({"set_window_caption"}, 3)
  \cup Each({"draw_window"}, 13)
  \cup Rows({"window_redraw"}, Handler({1}, {}, {2}, Calls))
  \cup Each({"move_window"}, 5)

WindowCommands ==
  Each({"set_window_caption"}, 3)
  \cup Each({"draw_window"}, 13)
  \cup Each({"window_redraw"}, 2)
  \cup Each({"move_window"}, 5)

BlitCommands ==
  Rows({"blit_bitmap"}, Handler({15}, 1..14, {14}, NoFile \cup Lends))
  \cup Rows({"scrot"}, Exact(2, Copies))
  \cup Rows({"write_devices_dat"}, Exact(2, NoFile \cup Dumps))
  \cup Each({"cd", "set_cwd"}, 2)

ExecCommand == Rows({"exec"}, Handler(1..MaxWords, {1}, {2}, Calls))

LsCommands ==
  LET does == Nothing \cup Lists \cup Buffers \cup Copies
  IN  Rows({"ls70"}, From(1, 1..8, does)) \cup Rows({"ls80"}, From(1, 1..10, does))

StatCommands == Rows({"stat70", "stat80"}, From(2, 2..5, Stats))

ReadCommands ==
  Rows({"read70"}, From(3, 4..6, Nothing \cup Buffers))
  \cup Rows({"read80"}, From(3, 4..8, Nothing \cup Buffers))

AcpiCommands ==
  Each({"acpi_enable"}, 1)
  \cup Rows({"acpi_get_node_cnt"}, Exact(1, Bare))
  \cup Rows({"acpi_get_node_alloc_cnt", "acpi_get_node_free_cnt", "acpi_get_usage"},
            Exact(1, Nothing))
  \cup Rows({"acpi_set_usage"}, Exact(2, Sets))
  \cup Rows({"acpi_preload_table"}, Exact(2, NoFile \cup Tables))
  \cup Rows({"acpi_call"}, Handler({2}, {1}, 2..MaxWords, Calls))

\* net_add_device uses its argument if there is one.
NetStackCommands ==
  Each({"stack_init", "net_get_dev_count"}, 1)
  \cup Rows({"pci_get_path"}, Exact(1, Nothing))
  \cup Rows({"pci_set_path"}, Exact(2, Sets))
  \cup Each({"load_dll"}, 2)
  \cup Rows({"net_add_device"},
            [takes |-> 0..2, paths |-> Ways({}, Nothing \cup Cards),
             tests |-> {1}, doc |-> {2}])

NetDeviceCommands ==
  Each({"net_get_dev_type", "net_get_dev_name", "net_dev_reset",
        "net_dev_stop", "net_get_dev", "net_get_packet_tx_count"}, 2)

NetCounterCommands ==
  Each({"net_get_packet_rx_count", "net_get_byte_tx_count",
        "net_get_byte_rx_count"}, 2)

LinkCommand == Each({"net_get_link_status"}, 2)

SocketCommands ==
  Each({"net_open_socket", "net_bind", "net_connect", "net_accept"}, 4)
  \cup Each({"net_close_socket"}, 2)
  \cup Each({"net_listen"}, 3)

Ipv4Commands ==
  Each({"net_eth_read_mac", "net_ipv4_get_addr", "net_ipv4_get_dns"}, 2)
  \cup Each({"net_ipv4_set_addr", "net_ipv4_set_dns"}, 3)

RouteCommands ==
  Each({"net_ipv4_get_subnet", "net_ipv4_get_gw", "net_arp_get_count"}, 2)
  \cup Each({"net_ipv4_set_subnet", "net_ipv4_set_gw"}, 3)

ArpCommands ==
  Each({"net_arp_get_entry", "net_arp_del_entry"}, 3)
  \cup Each({"net_arp_add_entry"}, 6)

BackgroundCommands ==
  Each({"osloop", "bg_redraw"}, 1)
  \cup Each({"bg_set_size", "bg_put_pixel"}, 3)
  \cup Rows({"bg_set_mode"}, Handler({3}, {1}, {2}, Calls))
  \cup Rows({"bg_put_img"}, Handler({4}, {1, 2}, {3}, NullFile \cup Pictures))

BoardCommands ==
  Rows({"board_get"}, Handler(0..2, {0}, 1..3, Nothing \cup Calls))
  \cup Each({"board_put", "bg_unmap"}, 2)
  \cup Each({"bg_map"}, 1)

HelpCommand == Rows({"help"}, Handler(1..2, {}, 1..2, Nothing))

\* cmd_cmds.
Table ==
  SlotCommands \cup BootCommands \cup I40Command \cup DiskCommands
  \cup TextCommands \cup DumpCommands \cup ThreadCommands
  \cup MouseMoveCommand \cup ProcessCommands \cup ColorCommands
  \cup SkinCommands \cup LayoutCommands \cup LanguageCommands
  \cup FontCommands \cup MouseCommands \cup ButtonCommands \cup CursorCommands
  \cup ImageCommands \cup WindowCommands \cup BlitCommands \cup ExecCommand
  \cup LsCommands \cup StatCommands \cup ReadCommands \cup AcpiCommands
  \cup NetStackCommands \cup NetDeviceCommands \cup NetCounterCommands \cup LinkCommand
  \cup SocketCommands \cup Ipv4Commands \cup RouteCommands \cup ArpCommands
  \cup BackgroundCommands \cup BoardCommands \cup HelpCommand

\* run_test walks cmd_cmds to the row of the line's first word.
Handlers ==
  [c \in {r[1] : r \in Table} |-> (CHOOSE r \in Table : r[1] = c)[2]]
============================================================================
