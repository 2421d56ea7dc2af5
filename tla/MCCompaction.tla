----------------------------- MODULE MCCompaction -----------------------------
(***************************************************************************)
(* A small session for TLC: a context of 12 units, a handful of steps.      *)
(***************************************************************************)
EXTENDS Compaction

Text(role, size) == [role |-> role, size |-> size, thought |-> 0]
Thinking(size, thought) == [role |-> "assistant", size |-> size, thought |-> thought]

Prompt == <<Text("system", 2), Text("user", 3)>>

\* A brief thought and a large output; a long thought and two outputs; a request to
\* correct the output; advice on a file between the outputs; a deferred answer.
StepTexts == {
    <<Thinking(1, 1), Text("tool", 7)>>,
    <<Thinking(4, 4), Text("tool", 3), Text("tool", 2)>>,
    <<Text("user", 2)>>,
    <<Text("assistant", 1), Text("system", 1), Text("tool", 3)>>,
    <<Text("assistant", 4), Text("system", 2)>> }

NoteTexts == {<<>>, <<Text("system", 1), Text("system", 2)>>}
===============================================================================
