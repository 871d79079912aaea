-------------------------- MODULE RemoteCallsProofs --------------------------
(***************************************************************************)
(* The calls to other services, for any statuses and any bound on the      *)
(* redirects: their types, and what the session attaches.                  *)
(***************************************************************************)
EXTENDS RemoteCalls, TLAPS

\* Once the download is accepted, its answer is one that may be attached but for
\* its type, and a file that is judged by its type is whole.
Accepted ==
    /\ pc \in {"write", "check"} =>
          \E a \in source : a.status \in 200..299 /\ a.body # "short"
    /\ pc = "check" => file = "whole"
    /\ source = {} \/ \E a \in Answers : source = {a}
    /\ outcome = "attached" => pc = "done"

Inv == TypeOK /\ Accepted /\ AttachesOnlyPdf

----------------------------------------------------------------------------
\* An error ends the session, or goes on from /usage, and attaches nothing.
LEMMA FailsIsSafe ==
    ASSUME TypeOK, pc # "done", Fails
    PROVE  /\ pc' \in {"connect", "done"}
           /\ wire' = "idle"
           /\ hops' = 0
           /\ outcome' \in Outcomes
           /\ outcome' = "attached" => outcome = "attached" /\ pc = "usage"
  BY DEF TypeOK, At, Calls, Health, Pdf, Fails, End, GoOn, Outcomes, Reasons

\* Every step keeps the types.
LEMMA TypeStep ==
    ASSUME TypeOK, [Next]_vars
    PROVE  TypeOK'
<1> USE RemoteAssumption DEF TypeOK, At, Calls, Health, Pdf, Wires
<1>1. CASE UNCHANGED vars BY <1>1 DEF vars
<1>2. CASE Unconfigured
  BY <1>2, FailsIsSafe DEF Unconfigured, End, Outcomes
<1>3. CASE Ask     BY <1>3 DEF Ask
<1>4. CASE Timeout BY <1>4, FailsIsSafe DEF Timeout
<1>5. CASE Write   BY <1>5, FailsIsSafe DEF Write, GoOn
<1>6. CASE Check   BY <1>6, FailsIsSafe DEF Check, End, Outcomes
<1>7. CASE Refuse
  <2>1. pc # "done" BY <1>7 DEF Refuse
  <2> QED BY <1>7, <2>1, FailsIsSafe DEF Refuse
<1>8. CASE BeginAnswer BY <1>8 DEF BeginAnswer
<1>9. CASE BreakOff    BY <1>9 DEF BreakOff
<1>10. CASE EndAnswer
  <2> PICK a \in Answers : Config(a) \/ Usage(a) \/ Follow(a) \/ Generate(a) \/ Download(a)
    BY <1>10 DEF EndAnswer
  <2>1. CASE Config(a) BY <2>1 DEF Config, End, GoOn, Outcomes, Reasons
  <2>2. CASE Usage(a)  BY <2>2 DEF Usage, GoOn
  <2>3. CASE Follow(a) BY <2>3, FailsIsSafe DEF Follow
  <2>4. CASE Generate(a) BY <2>4, FailsIsSafe DEF Generate, GoOn
  <2>5. CASE Download(a) BY <2>5, FailsIsSafe DEF Download, GoOn
  <2> QED BY <2>1, <2>2, <2>3, <2>4, <2>5
<1>11. CASE Connected BY <1>11 DEF Connected, GoOn
<1>12. ASSUME NEW s \in Statuses, Rejected(s) PROVE TypeOK'
  BY <1>12 DEF Rejected, End, Outcomes, Reasons
<1> QED BY <1>1, <1>2, <1>3, <1>4, <1>5, <1>6, <1>7, <1>8, <1>9, <1>10, <1>11, <1>12
        DEF Next, Local, Services

\* Every step keeps what is known of the file and of the answer it comes from.
LEMMA FileStep ==
    ASSUME Inv, [Next]_vars
    PROVE  (Accepted /\ AttachesOnlyPdf)'
<1> USE DEF Inv, TypeOK, At, Calls, Health, Pdf, Accepted, AttachesOnlyPdf
<1>1. CASE UNCHANGED vars BY <1>1 DEF vars
<1>2. CASE Unconfigured BY <1>2, FailsIsSafe DEF Unconfigured, End
<1>3. CASE Ask     BY <1>3 DEF Ask
<1>4. CASE Timeout BY <1>4, FailsIsSafe DEF Timeout
<1>5. CASE Write
  <2>1. CASE GoOn("check") /\ file' = "whole" BY <1>5, <2>1 DEF Write, GoOn
  <2>2. CASE Fails BY <1>5, <2>2, FailsIsSafe DEF Write
  <2> QED BY <1>5, <2>1, <2>2 DEF Write
<1>6. CASE Check
  <2>1. CASE \E a \in source : a.type = "other" BY <1>6, <2>1, FailsIsSafe DEF Check
  <2>2. CASE ~\E a \in source : a.type = "other" BY <1>6, <2>2 DEF Check, End
  <2> QED BY <2>1, <2>2
<1>7. CASE Refuse BY <1>7, FailsIsSafe DEF Refuse
<1>8. CASE BeginAnswer BY <1>8 DEF BeginAnswer
<1>9. CASE BreakOff    BY <1>9 DEF BreakOff
<1>10. CASE EndAnswer
  <2> PICK a \in Answers : Config(a) \/ Usage(a) \/ Follow(a) \/ Generate(a) \/ Download(a)
    BY <1>10 DEF EndAnswer
  <2>1. CASE Config(a) BY <2>1 DEF Config, End, GoOn
  <2>2. CASE Usage(a)  BY <2>2 DEF Usage, GoOn
  <2>3. CASE Follow(a) BY <2>3, FailsIsSafe DEF Follow
  <2>4. CASE Generate(a) BY <2>4, FailsIsSafe DEF Generate, GoOn
  <2>5. CASE Download(a) BY <2>5, FailsIsSafe DEF Download, GoOn, Success
  <2> QED BY <2>1, <2>2, <2>3, <2>4, <2>5
<1>11. CASE Connected BY <1>11 DEF Connected, GoOn
<1>12. ASSUME NEW s \in Statuses, Rejected(s) PROVE (Accepted /\ AttachesOnlyPdf)'
  BY <1>12 DEF Rejected, End
<1> QED BY <1>1, <1>2, <1>3, <1>4, <1>5, <1>6, <1>7, <1>8, <1>9, <1>10, <1>11, <1>12
        DEF Next, Local, Services

\* The invariant holds from the start.
LEMMA RemoteInvariant == Spec => []Inv
<1>1. Init => Inv
  BY RemoteAssumption DEF Init, Inv, TypeOK, Accepted, AttachesOnlyPdf, At, Calls, Health,
                          Pdf, Wires, Outcomes
<1>2. Inv /\ [Next]_vars => Inv'
  BY TypeStep, FileStep DEF Inv
<1> QED BY <1>1, <1>2, PTL DEF Spec

----------------------------------------------------------------------------
\* However the services answer, the calls keep their types: no more redirects are
\* followed than MaxRedirects.
THEOREM RemoteTypeCorrect == Spec => []TypeOK
<1>1. Inv => TypeOK BY DEF Inv
<1> QED BY <1>1, RemoteInvariant, PTL

\* Only the whole body of a 2xx answer, not said to be anything else than a PDF,
\* is ever attached.
THEOREM OnlyPdfAttached == Spec => []AttachesOnlyPdf
<1>1. Inv => AttachesOnlyPdf BY DEF Inv
<1> QED BY <1>1, RemoteInvariant, PTL

----------------------------------------------------------------------------
\* How many calls are left, and how far this one is.
Ranked ==
    /\ CallsLeft \in 0..7
    /\ InCall \in 0..(PerCall - 1)

LEMMA RankedAlways == ASSUME TypeOK PROVE Ranked
<1>1. MaxRedirects \in Nat /\ hops \in 0..MaxRedirects
  BY RemoteAssumption DEF TypeOK
<1>2. pc \in At /\ wire \in Wires /\ (wire # "idle" => pc \in Calls)
  BY DEF TypeOK
<1>3. InCall \in 0..(PerCall - 1)
  BY <1>1, <1>2 DEF InCall, PerCall, Wires
<1>4. CallsLeft \in 0..7
  BY <1>2 DEF CallsLeft, At, Calls, Health, Pdf
<1> QED BY <1>3, <1>4 DEF Ranked

\* One call less outweighs whatever is left within a call.
LEMMA Outweighs ==
    ASSUME NEW m \in Nat, NEW a \in Nat, NEW b \in Nat, a < b,
           NEW x \in 0..(m - 1), NEW y \in 0..(m - 1)
    PROVE  a * m + x < b * m + y
<1>1. b = a + 1 + (b - a - 1) /\ b - a - 1 \in Nat
  OBVIOUS
<1>2. ASSUME NEW k \in Nat PROVE (a + 1 + k) * m = a * m + m + k * m /\ k * m >= 0
  OBVIOUS
<1>3. b * m = a * m + m + (b - a - 1) * m /\ (b - a - 1) * m >= 0
  BY <1>1, <1>2
<1>4. a * m \in Int /\ b * m \in Int /\ (b - a - 1) * m \in Int
  OBVIOUS
<1> QED BY <1>3, <1>4

\* A step to a later call lowers the rank, however much that call may need.
LEMMA NextCall ==
    ASSUME Ranked, Ranked', CallsLeft' < CallsLeft
    PROVE  CallsRank' < CallsRank
<1>1. MaxRedirects \in Nat /\ PerCall \in Nat /\ PerCall' = PerCall
  BY RemoteAssumption DEF PerCall
<1>2. /\ CallsLeft \in Nat /\ InCall \in 0..(PerCall - 1)
      /\ CallsLeft' \in Nat /\ InCall' \in 0..(PerCall - 1)
  BY <1>1 DEF Ranked
<1>3. CallsLeft' * PerCall + InCall' < CallsLeft * PerCall + InCall
  BY <1>1, <1>2, Outweighs
<1> QED BY <1>1, <1>3 DEF CallsRank

\* So does a step within a call.
LEMMA SameCall ==
    ASSUME Ranked, Ranked', pc' = pc, InCall' < InCall
    PROVE  CallsRank' < CallsRank
<1>1. MaxRedirects \in Nat /\ PerCall \in Nat /\ PerCall' = PerCall
  BY RemoteAssumption DEF PerCall
<1>2. CallsLeft' = CallsLeft
  BY DEF CallsLeft
<1>3. CallsLeft \in Nat /\ InCall \in Int /\ InCall' \in Int
  BY <1>1 DEF Ranked
<1>4. CallsLeft * PerCall \in Int
  BY <1>1, <1>3
<1>5. CallsLeft * PerCall + InCall' < CallsLeft * PerCall + InCall
  BY <1>3, <1>4
<1> QED BY <1>1, <1>2, <1>5 DEF CallsRank

\* The calls in their order.
LEMMA LaterCalls ==
    /\ pc = "config"   => CallsLeft = 7
    /\ pc = "usage"    => CallsLeft = 6
    /\ pc = "connect"  => CallsLeft = 5
    /\ pc = "generate" => CallsLeft = 4
    /\ pc = "download" => CallsLeft = 3
    /\ pc = "write"    => CallsLeft = 2
    /\ pc = "check"    => CallsLeft = 1
    /\ pc' = "usage"    => CallsLeft' = 6
    /\ pc' = "connect"  => CallsLeft' = 5
    /\ pc' = "generate" => CallsLeft' = 4
    /\ pc' = "download" => CallsLeft' = 3
    /\ pc' = "write"    => CallsLeft' = 2
    /\ pc' = "check"    => CallsLeft' = 1
    /\ pc' = "done"     => CallsLeft' = 0
  BY DEF CallsLeft

\* What ends a call, well or badly, goes on to a later one.
LEMMA EndOrGoOn ==
    ASSUME TypeOK, pc # "done"
    PROVE  /\ \A o : End(o) => CallsLeft' < CallsLeft
           /\ Fails => CallsLeft' < CallsLeft
           /\ GoOn("usage") /\ pc = "config" => CallsLeft' < CallsLeft
           /\ GoOn("connect") /\ pc = "usage" => CallsLeft' < CallsLeft
           /\ GoOn("generate") /\ pc = "connect" => CallsLeft' < CallsLeft
           /\ GoOn("download") /\ pc = "generate" => CallsLeft' < CallsLeft
           /\ GoOn("write") /\ pc = "download" => CallsLeft' < CallsLeft
           /\ GoOn("check") /\ pc = "write" => CallsLeft' < CallsLeft
<1>1. pc \in {"config", "usage", "connect", "generate", "download", "write", "check"}
  BY DEF TypeOK, At, Calls, Health, Pdf
<1>2. \A o : End(o) => CallsLeft' < CallsLeft
  BY <1>1, LaterCalls DEF End
<1>3. Fails => \/ pc = "usage" /\ GoOn("connect")
               \/ \E o : End(o)
  BY <1>1 DEF Fails
<1>4. GoOn("connect") /\ pc = "usage" => CallsLeft' < CallsLeft
  BY LaterCalls DEF GoOn
<1>5. /\ GoOn("usage") /\ pc = "config" => CallsLeft' < CallsLeft
      /\ GoOn("generate") /\ pc = "connect" => CallsLeft' < CallsLeft
      /\ GoOn("download") /\ pc = "generate" => CallsLeft' < CallsLeft
      /\ GoOn("write") /\ pc = "download" => CallsLeft' < CallsLeft
      /\ GoOn("check") /\ pc = "write" => CallsLeft' < CallsLeft
  BY LaterCalls DEF GoOn
<1> QED BY <1>2, <1>3, <1>4, <1>5

\* Every step of the calls and of the services lowers the rank.
LEMMA CallsFall ==
    ASSUME TypeOK, Ranked, Ranked', Next
    PROVE  CallsRank' < CallsRank
<1> DEFINE Done == pc # "done" => CallsLeft' < CallsLeft
<1>1. ASSUME pc # "done", Done PROVE CallsRank' < CallsRank
  BY <1>1, NextCall
<1>2. MaxRedirects \in Nat /\ hops \in 0..MaxRedirects
  BY RemoteAssumption DEF TypeOK
<1>3. wire # "idle" => pc # "done"
  BY DEF TypeOK, Calls, Health, Pdf
<1>4. CASE Unconfigured
  BY <1>1, <1>4, EndOrGoOn DEF Unconfigured, Pdf
<1>5. CASE Ask
  <2>1. InCall' < InCall /\ pc' = pc
    BY <1>2, <1>5 DEF Ask, InCall, Calls, Health, Pdf
  <2> QED BY <2>1, SameCall
<1>6. CASE Timeout \/ Refuse
  BY <1>1, <1>3, <1>6, EndOrGoOn DEF Timeout, Refuse
<1>7. CASE Write \/ Check
  BY <1>1, <1>7, EndOrGoOn DEF Write, Check
<1>8. CASE BeginAnswer \/ BreakOff
  <2>1. InCall' < InCall /\ pc' = pc
    BY <1>2, <1>3, <1>8 DEF BeginAnswer, BreakOff, InCall
  <2> QED BY <2>1, SameCall
<1>9. CASE Connected \/ \E s \in Statuses : Rejected(s)
  BY <1>1, <1>9, EndOrGoOn DEF Connected, Rejected
<1>10. CASE EndAnswer
  <2> PICK a \in Answers : Config(a) \/ Usage(a) \/ Follow(a) \/ Generate(a) \/ Download(a)
    BY <1>10 DEF EndAnswer
  <2>1. wire = "answering" /\ pc # "done"
    BY <1>3, <1>10 DEF EndAnswer
  <2>2. CASE Follow(a) /\ ~Fails
    <3>1. InCall' < InCall /\ pc' = pc
      BY <1>2, <2>1, <2>2 DEF Follow, InCall
    <3> QED BY <3>1, SameCall
  <2>3. CASE Follow(a) /\ Fails
    BY <1>1, <2>1, <2>3, EndOrGoOn
  <2>4. CASE Config(a) \/ Usage(a)
    BY <1>1, <2>1, <2>4, EndOrGoOn DEF Config, Usage
  <2>5. CASE Generate(a) \/ Download(a)
    BY <1>1, <2>1, <2>5, EndOrGoOn DEF Generate, Download
  <2> QED BY <2>2, <2>3, <2>4, <2>5
<1> QED BY <1>4, <1>5, <1>6, <1>7, <1>8, <1>9, <1>10 DEF Next, Local, Services

\* Whatever the services answer, a call and the redirects it follows take at most
\* 3 * MaxRedirects + 4 steps, and no redirect and no error leads back to an
\* earlier call.
THEOREM TheCallsEnd == Spec => CallsEnd
<1> DEFINE Within == InCall \in 0..(PerCall - 1)
           Nearer == CallsRank' < CallsRank
<1>1. TypeOK => Ranked
  BY RankedAlways
<1>2. Ranked => Within
  BY DEF Ranked
<1>3. TypeOK /\ Ranked /\ Ranked' /\ [Next]_vars => [Nearer]_vars
  BY CallsFall
<1>4. []Within /\ [][Nearer]_vars => CallsEnd
  BY DEF CallsEnd
<1> HIDE DEF Within, Nearer
<1> QED BY <1>1, <1>2, <1>3, <1>4, RemoteTypeCorrect, PTL DEF Spec
=============================================================================
