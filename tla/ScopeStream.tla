---------------------------- MODULE ScopeStream ----------------------------
(***************************************************************************)
(* What one scope of a streaming search promises its reader, whatever the  *)
(* timers and the order of the plugins' answers: at most one partial       *)
(* message, then exactly one final message, and nothing after it.  The     *)
(* final shows everything, and an error is reported only where there is    *)
(* nothing to show (runtime/src/engine/search_scoped.rs, run_scope_timing). *)
(*                                                                         *)
(* The partial is of two kinds.  Once the first answer has waited for the  *)
(* partial deadline, `due`, it shows everything known.  Before that it can *)
(* only be the hard floor's placeholder, which shows nothing.  The header  *)
(* of the source promises the placeholder only if no plugin has responded; *)
(* the code sends it also when some have, less than a deadline ago, so     *)
(* that is not part of the promise.                                        *)
(***************************************************************************)
EXTENDS Sequences

CONSTANTS
    Sources,        \* whatever can contribute entries to the scope
    Errors          \* what a final message may report instead of entries

VARIABLES
    known,          \* sources whose entries the scope has collected
    due,            \* the partial deadline has passed since the first answer
    stream          \* messages sent for the scope, oldest first

Finalised == \E i \in DOMAIN stream : ~stream[i].partial

Init ==
    /\ known = {}
    /\ due = FALSE
    /\ stream = <<>>

\* A source answers with entries.
Learn ==
    /\ ~Finalised
    /\ \E s \in Sources : known' = known \cup {s}
    /\ UNCHANGED <<due, stream>>

\* The first answer's entries have waited long enough.
BecomeDue ==
    /\ ~due /\ ~Finalised
    /\ due' = TRUE
    /\ UNCHANGED <<known, stream>>

SendPartial(shown) ==
    /\ stream = <<>>
    /\ stream' = Append(stream, [partial |-> TRUE, entries |-> shown, error |-> "none"])
    /\ UNCHANGED <<known, due>>

\* At most one partial, and only as the first message: everything that is known
\* once it is due, nothing before.
SendKnown == due /\ SendPartial(known)
SendPlaceholder == ~due /\ SendPartial({})

\* One final, the last message, with everything that was collected.
SendFinal ==
    /\ ~Finalised
    /\ \E e \in IF known = {} THEN Errors \cup {"none"} ELSE {"none"} :
          stream' = Append(stream, [partial |-> FALSE, entries |-> known,
                                    error |-> e])
    /\ UNCHANGED <<known, due>>

Next == Learn \/ BecomeDue \/ SendKnown \/ SendPlaceholder \/ SendFinal

Spec == Init /\ [][Next]_<<known, due, stream>>
=============================================================================
