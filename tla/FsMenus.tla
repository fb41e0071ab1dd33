------------------------------ MODULE FsMenus -------------------------------
(***************************************************************************)
(* The system calls that the small instances of Fs make.  They come in     *)
(* menus, of which a behaviour uses one, to keep each instance small.      *)
(***************************************************************************)

CONSTANT Menus

Call(op, path) == [op |-> op, abs |-> TRUE, path |-> path, write |-> TRUE]
LinkTo(path, to) == [op |-> "link", abs |-> TRUE, path |-> path, to |-> to]
Rel(op, path) == [op |-> op, abs |-> FALSE, path |-> path, write |-> FALSE]

\* Files and their links go, and with them the directory they are in.
Links2 == {Call("mkdir", <<"a">>), Call("mknod", <<"a", "b">>), Call("unlink", <<"a", "b">>),
           Call("unlink", <<"a">>), LinkTo(<<"a", "b">>, <<"b">>), Call("unlink", <<"b">>)}

\* A directory that goes is the current one, and is created in.
Cwd == {Call("mkdir", <<"a">>), Call("chdir", <<"a">>), Rel("creat", <<"b">>),
        Call("unlink", <<"a">>)}

\* Devices, and calls that fail.
Odd == {Call("mkdir", <<"a">>), Call("mknod", <<"b">>), LinkTo(<<"a">>, <<"b">>),
        LinkTo(<<"b">>, <<"b", "a">>), Call("unlink", <<>>),
        Call("unlink", <<"a">>), Call("unlink", <<"a", ".">>),
        Call("open", <<"a">>), Call("chdir", <<"b">>)}

Device == {Call("mknod", <<"b">>), Call("open", <<"b">>)}

\* A file is opened while it is removed.
Opens == {Call("creat", <<"a">>), Call("unlink", <<"a">>), Rel("open", <<"a">>)}

\* Two files, created and removed.
Reuse == {Call("creat", <<"a">>), Call("unlink", <<"a">>)}

\* A directory below one that goes.
Above == {Call("mkdir", <<"a">>), Call("mkdir", <<"a", "b">>), Call("chdir", <<"a", "b">>),
          Call("unlink", <<"a", "b">>), Call("unlink", <<"a">>), Rel("open", <<"..">>)}

Menu == [links |-> Links2, cwd |-> Cwd, odd |-> Odd, device |-> Device,
         opens |-> Opens, reuse |-> Reuse, above |-> Above]
AllCalls == UNION {Menu[m] : m \in Menus}
=============================================================================
