------------------------------ MODULE Compaction ------------------------------
(***************************************************************************)
(* The messages of a session and what CompactionMiddleware (middleware.rs)  *)
(* does to them: compact_if_needed after a step (compaction.rs, levels 0 to *)
(* 3), and the context guard before the next call of the model, which       *)
(* compacts at level 3 or stops the run.                                    *)
(*                                                                         *)
(* A message is abstracted to what the levels tell apart: its role, its     *)
(* size (one unit for the tokens, bytes and characters the code counts),    *)
(* and for an assistant's message whether it was summarised and where its   *)
(* own thinking ends: a summary is not cut again, and grows by what the     *)
(* thinking of the old messages adds to it, which decides the level after   *)
(* it.  The budget by kinds of memory (BONSAI_DYNAMIC_BUDGET) is off.       *)
(***************************************************************************)
EXTENDS Integers, Sequences, SequencesExt, FiniteSetsExt

CONSTANTS
    MaxSize,         \* CompactionConfig::max_context_tokens, 14000
    EmergencyKeep,   \* emergency_keep, 4
    KeepRecent,      \* placeholder_keep_recent, 6
    ProtectSize,     \* prune_protect_tokens, 4000
    LargeOutput,     \* large_output_threshold, 5000
    PreviewSize,     \* what level 0 leaves of such an output
    PruneMinimum,    \* prune_minimum_chars, 50
    MarkerSize,      \* what level 1 leaves of a pruned output
    SummaryMax,      \* summary_max_chars, 200
    BlockSize,       \* one block of preserved thinking
    WorthResolving,  \* the assistant's messages that a handoff names are longer, 20
    HandoffSize,     \* the handoff message
    Opening,         \* the messages a session starts with
    Steps,           \* bound: what one step may add to the session
    Notes,           \* bound: what the mechanisms after a step may add
    MaxSteps         \* bound: steps

Roles == {"system", "user", "assistant", "tool"}

\* thought: where the first closed block of thinking ends, 0 if there is none.
Texts == [role : Roles, size : Nat, thought : Nat]

ASSUME CompactionConstants ==
    /\ {MaxSize, ProtectSize, LargeOutput, PreviewSize, PruneMinimum, MarkerSize,
        SummaryMax, BlockSize, WorthResolving, HandoffSize, MaxSteps} \subseteq Nat
    /\ EmergencyKeep \in Nat /\ KeepRecent \in Nat /\ EmergencyKeep <= KeepRecent
    /\ Opening \in Seq(Texts) /\ Opening # <<>> /\ Opening[1].role = "system"
    /\ Steps \subseteq Seq(Texts)
    /\ Notes \subseteq Seq([role : {"system"}, size : Nat, thought : {0}])

VARIABLES
    pc,         \* "model", "after_step", "before_step" or "aborted"
    steps,      \* steps taken
    messages,   \* Session::messages
    log         \* history: every message as it was added

vars == <<pc, steps, messages, log>>

\* marked: the text has "...[summarized]".  id: the position in the log, 0 for a handoff.
Messages == [id : Nat, role : Roles, size : Nat, thought : Nat, marked : BOOLEAN]

Message(text, id) ==
    [id |-> id, role |-> text.role, size |-> text.size, thought |-> text.thought,
     marked |-> FALSE]

Added(texts, count) == [i \in DOMAIN texts |-> Message(texts[i], count + i)]

(***************************************************************************)
(* Measures                                                                *)
(***************************************************************************)

\* estimate_tokens
Size(s) ==
    LET upTo[n \in 0 .. Len(s)] == IF n = 0 THEN 0 ELSE upTo[n - 1] + s[n].size
    IN upTo[Len(s)]

\* The last n messages, or all of them.
LastOf(s, n) == SubSeq(s, Len(s) - Min({n, Len(s)}) + 1, Len(s))

\* keep_by_tokens: how many of the last messages fit in the protected size.
KeptBySize(s) == Max({n \in 0 .. Len(s) : Size(LastOf(s, n)) <= ProtectSize})

\* Assistants' messages among the first n.
Assistants(s, n) == {i \in 1 .. n : s[i].role = "assistant"}

(***************************************************************************)
(* The four levels                                                         *)
(***************************************************************************)

\* compact_level0: large outputs move to a file, if it can be written.
Level0(s, writable) ==
    [i \in DOMAIN s |->
        IF writable /\ s[i].role = "tool" /\ s[i].size > LargeOutput
        THEN [s[i] EXCEPT !.size = PreviewSize] ELSE s[i]]

\* How many messages level 1 may prune.  The pairs across this boundary and the first and
\* last User are also excluded, which changes nothing: only outputs of tools are pruned,
\* and an output before the boundary has no partner behind it.
Old(s) == Len(s) - Max({KeepRecent, KeptBySize(s)})

Pruned(m) ==
    IF m.role = "tool" /\ m.size > PruneMinimum THEN [m EXCEPT !.size = MarkerSize] ELSE m

\* Mutant: the protected size alone decides.
Level1_BySize(s) ==
    LET old == Len(s) - KeptBySize(s)
    IN [i \in 1 .. old |-> Pruned(s[i])] \o SubSeq(s, old + 1, Len(s))

\* compact_level1_with_budget
Level1(s) ==
    IF Len(s) <= KeepRecent THEN s
    ELSE [i \in 1 .. Old(s) |-> Pruned(s[i])] \o SubSeq(s, Old(s) + 1, Len(s))

\* A long message of the assistant is cut once.
Summarised(m) ==
    IF m.role = "assistant" /\ ~m.marked /\ m.size > SummaryMax
    THEN [m EXCEPT !.size = SummaryMax, !.marked = TRUE,
                   !.thought = IF @ <= SummaryMax THEN @ ELSE 0]
    ELSE m

WithThinking(m) == [m EXCEPT !.size = @ + BlockSize]

\* compact_level2_with_budget: what the old messages thought is extracted before they are
\* cut, and appended to the last of them, every time.
Level2(s) ==
    IF Len(s) <= KeepRecent THEN s
    ELSE LET old       == Len(s) - KeepRecent
             ours      == Assistants(s, old)
             thought   == \E i \in ours : s[i].thought > 0
             New(i)    == IF thought /\ i = Max(ours) THEN WithThinking(Summarised(s[i]))
                          ELSE Summarised(s[i])
         IN [i \in 1 .. old |-> New(i)] \o SubSeq(s, old + 1, Len(s))

\* build_handoff_summary
Handoff(s) ==
    IF \E i \in Assistants(s, Len(s) - EmergencyKeep) : s[i].size > WorthResolving
    THEN <<Message([role |-> "system", size |-> HandoffSize, thought |-> 0], 0)>>
    ELSE <<>>

IsSystem(m) == m.role = "system"

\* The System messages, in their order.
Systems(s) ==
    LET upTo[n \in 0 .. Len(s)] ==
            IF n = 0 THEN <<>>
            ELSE IF IsSystem(s[n]) THEN Append(upTo[n - 1], s[n]) ELSE upTo[n - 1]
    IN upTo[Len(s)]

\* Mutant: the recent messages are collected from the end and left in that order.
Level3_NotReversed(s) ==
    IF Len(s) <= EmergencyKeep + 1 THEN s
    ELSE Systems(s) \o Handoff(s) \o Reverse(LastOf(s, EmergencyKeep))

\* Mutant: the handoff stands for the System messages too.
Level3_DropsSystem(s) ==
    IF Len(s) <= EmergencyKeep + 1 THEN s
    ELSE SubSeq(s, 1, 1) \o Handoff(s) \o LastOf(s, EmergencyKeep)

\* Mutant: short sessions are told by the other threshold.
Level3_TooLate(s) ==
    IF Len(s) <= KeepRecent + 1 THEN s
    ELSE Systems(s) \o Handoff(s) \o LastOf(s, EmergencyKeep)

\* compact_level3.  A System message among the recent ones is there twice afterwards.
Level3(s) ==
    IF Len(s) <= EmergencyKeep + 1 THEN s
    ELSE Systems(s) \o Handoff(s) \o LastOf(s, EmergencyKeep)

\* compact_if_needed
Compacted(s, writable) ==
    LET s0 == Level0(s, writable)
        s1 == IF Size(s0) > (3 * MaxSize) \div 4 THEN Level1(s0) ELSE s0
        s2 == IF Size(s1) > (9 * MaxSize) \div 10 THEN Level2(s1) ELSE s1
    IN IF Size(s2) > MaxSize THEN Level3(s2) ELSE s2

(***************************************************************************)
(* A session                                                               *)
(***************************************************************************)

Init ==
    /\ pc = "model"
    /\ steps = 0
    /\ log = Added(Opening, 0)
    /\ messages = log

\* A step that runs tools or asks for a correction goes on; the others defer an answer.
GoesOn(texts) == \E i \in DOMAIN texts : texts[i].role \in {"tool", "user"}

\* The model has answered and what it asked for was done.  A step that goes on is
\* followed by run_after_step, a deferred answer by the next iteration.
StepTaken ==
    /\ pc = "model"
    /\ steps < MaxSteps
    /\ steps' = steps + 1
    /\ \E texts \in Steps :
           LET new == Added(texts, Len(log))
           IN /\ log' = log \o new
              /\ messages' = messages \o new
              /\ pc' = IF GoesOn(texts) THEN "after_step" ELSE "before_step"

\* CompactionMiddleware::after_step.  What TokenBudgetMiddleware and the stall detector
\* have to say comes after it.
AfterStep ==
    /\ pc = "after_step"
    /\ \E writable \in BOOLEAN, texts \in Notes :
           LET new == Added(texts, Len(log))
           IN log' = log \o new /\ messages' = Compacted(messages, writable) \o new
    /\ pc' = "before_step"
    /\ UNCHANGED steps

\* CompactionMiddleware::before_step
BeforeStep ==
    /\ pc = "before_step"
    /\ messages' = IF Size(messages) <= MaxSize THEN messages ELSE Level3(messages)
    /\ pc' = IF Size(messages') > MaxSize THEN "aborted" ELSE "model"
    /\ UNCHANGED <<steps, log>>

Ended == pc = "aborted" \/ (pc = "model" /\ steps = MaxSteps)
Terminated == Ended /\ UNCHANGED vars

Next == StepTaken \/ AfterStep \/ BeforeStep \/ Terminated

\* The loop takes its next step as long as it has one.
Spec == Init /\ [][Next]_vars /\ WF_vars(StepTaken \/ AfterStep \/ BeforeStep)

(***************************************************************************)
(* Properties                                                              *)
(***************************************************************************)

\* What the user said is never touched, and only the assistant's texts are summarised.
TypeOK ==
    /\ pc \in {"model", "after_step", "before_step", "aborted"}
    /\ steps \in 0 .. MaxSteps
    /\ log \in Seq(Messages)
    /\ messages \in Seq(Messages)
    /\ \A i \in DOMAIN messages :
           LET m == messages[i]
           IN /\ m.id \in 0 .. Len(log)
              /\ m.id > 0 => m.role = log[m.id].role
              /\ m.marked => m.role = "assistant"
              /\ m.role = "user" => m = log[m.id]

\* Whatever levels fire, between two steps or twice in a row, the last messages of the
\* session are the last that were added to it, in that order, and no summary or marker
\* took the place of one: the model sees the end of the conversation as it was, or, for
\* a large output, the preview that names its file (compaction.rs 667-690, 708-721).
RecentMessagesIntact ==
    \A n \in 0 .. Min({EmergencyKeep, Len(log)}) - 1 :
        LET m     == messages[Len(messages) - n]
            added == log[Len(log) - n]
        IN \/ m = added
           \/ m = [added EXCEPT !.size = PreviewSize] /\ added.role = "tool"

\* No level gives up an instruction: the prompts, advice and warnings that were added to
\* the session as System messages are all still in it (compaction.rs 700-704).
SystemMessagesSurvive ==
    \A i \in DOMAIN log : IsSystem(log[i]) => \E j \in DOMAIN messages : messages[j].id = i

\* Compaction may thin the conversation out, but never repeats or reorders what the user,
\* the assistant and the tools said (compaction.rs 708-721).
ConversationInOrder ==
    \A i, j \in DOMAIN messages :
        i < j /\ ~IsSystem(messages[i]) /\ ~IsSystem(messages[j])
            => messages[i].id < messages[j].id

\* The guard before the model lets no oversized context through, and stops the run only
\* when System messages and the last few messages alone are too many, so that there was
\* nothing left to drop (middleware.rs 283-312).
StopsOnlyWhenNothingIsLeft ==
    /\ pc = "model" /\ steps > 0 => Size(messages) <= MaxSize
    /\ pc = "aborted" =>
           \A i \in DOMAIN messages :
               IsSystem(messages[i]) \/ i > Len(messages) - EmergencyKeep
===============================================================================
