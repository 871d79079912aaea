----------------------------- MODULE PortalHours -----------------------------
(***************************************************************************)
(* The two clocks of a row that the portal refused because of the hour:    *)
(* the schedules of the bot (AttentionSchedule) and the restriction that   *)
(* runOnce wrote in the detail of the row and reads back in later cycles   *)
(* (demandsOnlineAutomation.service.ts).                                   *)
(*                                                                         *)
(* A message of the portal is the sequence of the times it mentions: the   *)
(* first two become the hours, the next two the recess, whatever the text  *)
(* around them says.                                                       *)
(***************************************************************************)
EXTENDS AttentionSchedule, Sequences

CONSTANT Messages   \* what the portal may say

ASSUME MessagesAssumption == Messages \subseteq Seq(Minutes)

\* " Horario: a-b." of the detail, if the message mentions two times.
Horario(times) == IF Len(times) >= 2 THEN {[from |-> times[1], to |-> times[2]]} ELSE {}

\* " Receso: c-d." of the detail, if it mentions four.
Receso(times) == IF Len(times) >= 4 THEN {[from |-> times[3], to |-> times[4]]} ELSE {}

\* isCurrentTimeAllowedForPortalRestriction, of the detail read back.
Allowed(times, now) ==
    /\ \A h \in Horario(times) : ~(now < h.from \/ now > h.to)
    /\ \A r \in Receso(times) : ~(now >= r.from /\ now < r.to)

\* Mutant: the recess alone does not matter.
SkippedForHours(times, now) == \E h \in Horario(times) : now < h.from \/ now > h.to

\* The row is passed over without opening a browser: isPortalRestrictionDetail
\* takes a detail without hours for no restriction.
Skipped(times, now) == Horario(times) # {} /\ ~Allowed(times, now)

\* On day d at minute m the bot of portfolio p takes the row of that message.
Takes(p, d, m, times) == ~Skipped(times, m) /\ Refusal("active", "none", p, d, m) = "none"

----------------------------------------------------------------------------
\* The minutes a message of two or four times promises: none at all when its
\* hours come the wrong way round, as hours across midnight would.
Attends(times) ==
    (times[1]..times[2]) \ (IF Len(times) >= 4 THEN times[3]..(times[4] - 1) ELSE {})

\* A row whose restriction carries hours gets its turn on a day exactly when some
\* minute of that day lies both in the hours of one of the bot's schedules and in
\* those the portal promised; otherwise it is passed over for the whole day.
RestrictedRowGetsItsTurn ==
    \A p \in Portfolios, d \in Days :
       LET hours == {m \in Minutes : \E i \in Active(p) : InHours(table[i], d, m)}
       IN  \A times \in {t \in Messages : Len(t) >= 2} :
              (\E m \in Minutes : Takes(p, d, m, times)) <=>
                 \E m \in hours : m \in Attends(times)
=============================================================================
