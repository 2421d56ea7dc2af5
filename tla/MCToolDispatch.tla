---------------------------- MODULE MCToolDispatch ----------------------------
(***************************************************************************)
(* Instances of ToolDispatch for TLC.                                       *)
(***************************************************************************)
EXTENDS ToolDispatch

\* A file read, once with its argument as a string, and a command that changes files.
FileTools == {[tool |-> "file_read", arg |-> a] : a \in Args}
                 \cup {[tool |-> "shell", arg |-> "native"]}
===============================================================================
