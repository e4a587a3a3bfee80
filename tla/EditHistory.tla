----------------------------- MODULE EditHistory ------------------------------
(***************************************************************************)
(* What an edit session promises its user, without saying how: a layer     *)
(* with a past and a future.  Undo and redo walk along the layers the user *)
(* has seen, discarding returns to the first one, saving keeps the layer   *)
(* and forgets how it came about.                                          *)
(*                                                                         *)
(* A layer is a record of its fields and of its rows by feature id.        *)
(***************************************************************************)
EXTENDS Integers, Sequences, FiniteSets, SequencesExt

VARIABLES open, past, present, future

history == <<open, past, present, future>>

\* Features keep their content when they are saved; those of the data source
\* keep their ids too, new ones (negative ids) are given others.
SameContent(before, after) ==
    /\ before.fields = after.fields
    /\ \A fid \in DOMAIN before.rows :
          fid >= 0 => /\ fid \in DOMAIN after.rows
                      /\ after.rows[fid] = before.rows[fid]
    /\ \A row \in Range(before.rows) \cup Range(after.rows) :
          Cardinality({f \in DOMAIN before.rows : before.rows[f] = row})
            = Cardinality({f \in DOMAIN after.rows : after.rows[f] = row})

Init == open = FALSE /\ past = <<>> /\ future = <<>>

Open ==
    /\ ~open /\ open'
    /\ past' = <<>> /\ future' = <<>> /\ UNCHANGED present

Edit ==
    /\ open /\ open'
    /\ past' = Append(past, present)
    /\ future' = <<>>

\* A further change of the same geometry becomes part of the last edit.
Amend ==
    /\ open /\ open' /\ past # <<>>
    /\ future' = <<>> /\ UNCHANGED past

ForgetFuture ==
    /\ open /\ future' = <<>> /\ UNCHANGED <<open, past, present>>

\* An edit that was given up; it may be redone.
Abandon ==
    /\ open /\ Len(future') = 1
    /\ UNCHANGED <<open, past, present>>

Undo ==
    /\ open /\ open' /\ past # <<>>
    /\ present' = Last(past)
    /\ past' = Front(past)
    /\ future' = <<present>> \o future

Redo ==
    /\ open /\ open' /\ future # <<>>
    /\ present' = Head(future)
    /\ past' = Append(past, present)
    /\ future' = Tail(future)

Rewind ==
    /\ open /\ past' = <<>>
    /\ present' = (past \o <<present>>)[1]
    /\ \/ ~open' /\ future' = <<>>
       \/ open' /\ future' = Tail(past \o <<present>> \o future)

Save ==
    /\ open /\ ~open'
    /\ SameContent(present, present')
    /\ past' = <<>> /\ future' = <<>>

Next ==
    \/ Open \/ Edit \/ Amend \/ ForgetFuture \/ Abandon
    \/ Undo \/ Redo \/ Rewind \/ Save

Spec == Init /\ [][Next]_history

=============================================================================
