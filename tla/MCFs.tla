-------------------------------- MODULE MCFs --------------------------------
(* Small instances of Fs for TLC: a behaviour makes the calls of one menu. *)
EXTENDS Fs, FsMenus

VARIABLE menu

menuvars == <<vars, menu>>

MenuInit == Init /\ menu \in Menus

MenuNext ==
  /\ Next /\ UNCHANGED menu
  /\ \A p \in Proc : th[p] = Idle => th'[p].c \in Menu[menu] \cup {NoCall}
  /\ menu # "device" => \A p \in Proc : ofile'[p][2] = 0    \* no dup()

MenuSpec == MenuInit /\ [][MenuNext]_menuvars
=============================================================================
