------------------------------ MODULE Handoff ------------------------------
(***************************************************************************)
(* The handoff file of a project and the hook processes that rewrite it:   *)
(* regenerate_handoff of scripts/hooks/_shared.py (Stop, SubagentStop,     *)
(* PreCompact) and of core/context/handoff.py (the launcher when a         *)
(* terminal session ends).  Every regeneration reads handoff.md, facts.md  *)
(* and decisions.md, writes the one temporary file handoff.tmp, renames it *)
(* over handoff.md and appends the decisions that are new.  The processes  *)
(* know nothing of each other.                                             *)
(*                                                                         *)
(* Files are inodes: a process that has opened the temporary file goes on  *)
(* writing to its inode whatever name the inode has by then.  A line is a  *)
(* member of Fact or Todo; only the "Must Not Forget" section is kept of   *)
(* the handoff, and a section is cut after MaxLines lines.                 *)
(***************************************************************************)
EXTENDS Naturals, Sequences, FiniteSets, SequencesExt

CONSTANTS
    Writer,      \* hook processes, one per event
    Fact,        \* lines of facts.md and of the section
    Decision,    \* decision-shaped lines of transcripts
    MaxLines,    \* 8 in the code
    Inode,       \* positive numbers: files ever created, a bound
    Rounds       \* regenerations of one writer, a bound

VARIABLES
    facts,       \* facts.md
    must,        \* inode -> its "Must Not Forget" lines
    names,       \* [handoff, tmp]: the inode of each name, 0 if there is none
    decided,     \* decisions.md
    writer       \* writer -> its phase and what it has read

handoffVars == <<facts, must, names, decided, writer>>

Todo == "todo"   \* "- Add project-critical facts to CLAUDE.local.md."

Resting == [phase |-> "idle", fd |-> 0, new |-> <<>>, found |-> {}, seen |-> {}, fresh |-> FALSE, runs |-> 0]

HandoffInit ==
    /\ facts \in {<<>>} \union {<<f>> : f \in Fact}
    /\ must = [i \in Inode |-> IF i = 1 THEN <<CHOOSE f \in Fact : TRUE>> ELSE <<>>]
    /\ names = [handoff |-> 1, tmp |-> 0]
    /\ decided = <<>>
    /\ writer = [w \in Writer |-> Resting]

Section == IF names.handoff = 0 THEN <<>> ELSE must[names.handoff]

Cut(lines) == SubSeq(lines, 1, IF Len(lines) < MaxLines THEN Len(lines) ELSE MaxLines)

\* What the next handoff must not forget: the lines of the old one before the facts.
MustLines(section, known) ==
    LET lines == Cut(section \o known) IN IF lines = <<>> THEN <<Todo>> ELSE lines

Goto(w, phase) == writer' = [writer EXCEPT ![w].phase = phase]

\* The files are read; found are the decisions of the transcript.  fresh remembers
\* that no other writer was at work, nor the facts changed, since this one began.
ReadInputs(w) ==
    /\ writer[w].phase = "idle" /\ writer[w].runs < Rounds
    /\ \E found \in SUBSET Decision :
          writer' = [v \in Writer |->
              IF v # w THEN [writer[v] EXCEPT !.fresh = FALSE]
              ELSE [Resting EXCEPT !.phase = "open", !.new = MustLines(Section, facts),
                                   !.found = found, !.runs = writer[w].runs + 1,
                                   !.fresh = \A u \in Writer \ {w} : writer[u].phase = "idle"]]
    /\ UNCHANGED <<facts, must, names, decided>>

\* write_text opens the temporary file, made or emptied, ...
OpenTmp(w) ==
    /\ writer[w].phase = "open"
    /\ \E i \in Inode :
          /\ IF names.tmp # 0 THEN i = names.tmp
             ELSE i \notin {names.handoff} \union {writer[v].fd : v \in Writer}
                  /\ \A j \in Inode : j < i => j \in {names.handoff} \union {writer[v].fd : v \in Writer}
          /\ names' = [names EXCEPT !.tmp = i]
          /\ must' = [must EXCEPT ![i] = <<>>]
          /\ writer' = [writer EXCEPT ![w].phase = "write", ![w].fd = i]
    /\ UNCHANGED <<facts, decided>>

\* ... and the text reaches it when it is flushed.
WriteTmp(w) ==
    /\ writer[w].phase = "write"
    /\ must' = [must EXCEPT ![writer[w].fd] = writer[w].new]
    /\ Goto(w, "replace")
    /\ UNCHANGED <<facts, names, decided>>

\* The rename fails if another writer has renamed the file before: the hook reports
\* the error and ends, and its decisions are not recorded.
Replace(w) ==
    /\ writer[w].phase = "replace"
    /\ IF names.tmp = 0
       THEN writer' = [writer EXCEPT ![w].phase = "idle", ![w].fd = 0] /\ UNCHANGED names
       ELSE names' = [handoff |-> names.tmp, tmp |-> 0] /\ writer' = [writer EXCEPT ![w].phase = "recall", ![w].fd = 0]
    /\ UNCHANGED <<facts, must, decided>>

\* append_new_decisions looks for what the file holds already, ...
RecallDecisions(w) ==
    /\ writer[w].phase = "recall"
    /\ writer' = [writer EXCEPT ![w].phase = "append", ![w].seen = ToSet(decided)]
    /\ UNCHANGED <<facts, must, names, decided>>

\* ... and appends the rest to whatever it holds by then.
Appended(old, found, seen) == old \o SetToSeq(found \ seen)

AppendDecisions(w) ==
    /\ writer[w].phase = "append"
    /\ decided' = Appended(decided, writer[w].found, writer[w].seen)
    /\ Goto(w, "idle")
    /\ UNCHANGED <<facts, must, names>>

\* The project's people write a line into facts.md.
LearnFact(f) ==
    /\ f \notin ToSet(facts)
    /\ facts' = Append(facts, f)
    /\ writer' = [v \in Writer |-> [writer[v] EXCEPT !.fresh = FALSE]]
    /\ UNCHANGED <<must, names, decided>>

HandoffNext ==
    \/ \E w \in Writer : ReadInputs(w) \/ OpenTmp(w) \/ WriteTmp(w) \/ Replace(w)
                         \/ RecallDecisions(w) \/ AppendDecisions(w)
    \/ \E f \in Fact : LearnFact(f)

-----------------------------------------------------------------------------
\* Whatever the writers do to each other's temporary file, a decision one of them has
\* recorded stays in decisions.md, and what the section holds is never a line that
\* nobody wrote.  A writer that had the files to itself has kept every line of the
\* section it found, in its place (the facts come after it).
Recorded == {d \in Decision : d \in ToSet(decided)}

HandoffKept ==
     /\ Recorded \subseteq Recorded'
     /\ \A w \in Writer :
           (writer[w].phase = "replace" /\ writer[w].fresh /\ names'.tmp # names.tmp)
               => IsPrefix(Section, Section')

\* What the project's facts are for: a regeneration that had the files to itself leaves
\* the facts it has read in the section, as long as there is room for all of them.  The
\* code does not keep this: the section fills up with lines of earlier regenerations.
FactsReachTheHandoff ==
    \A w \in Writer :
        (writer[w].phase = "recall" /\ writer[w].fresh /\ Cardinality(Fact) < MaxLines)
            => \A f \in ToSet(facts) : f \in ToSet(Section)

\* What a rename is for: nobody ever finds the handoff emptied.  Two writers of the one
\* temporary file do not keep this.
HandoffWhole == Section # <<>>
=============================================================================
