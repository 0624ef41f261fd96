---------------------------- MODULE UserLookupProofs ----------------------------
(***************************************************************************)
(* Proofs about UserLookup, for any number of requests and any users: how  *)
(* far the data race on parsedID can reach.                                *)
(*                                                                         *)
(* The argument follows one half of the id.  A request writes it before it *)
(* reads it, and whoever overwrites it in between is in service at the     *)
(* same time, and so is a rival; the query finds a user by an id whose     *)
(* halves agree, so that the half that is followed names the user.         *)
(***************************************************************************)
EXTENDS UserLookup, TLAPS

Own(r) == {r} \cup rivals[r]

Asked(r) == {asked[q] : q \in Own(r)}

\* Requests in service at the same time are rivals, and no rival is to come.
RivalsMeet ==
    /\ \A q, r \in Requests : InService(q) /\ InService(r) => q \in Own(r)
    /\ \A r \in Requests : \A q \in Own(r) : pc[r] # "idle" => pc[q] # "idle"

\* Where the high half of the id that a request reads, or has read, is from.
HighIsAsked ==
    \A r \in Requests :
        /\ pc[r] \in {"scanning", "read"} => parsedID.hi \in Asked(r)
        /\ pc[r] \in {"reading", "query"} => copy[r].hi \in Asked(r)

\* A string that does not parse is never written.
ScannedIsId == \A r \in Requests : pc[r] = "scanning" => asked[r] # BadId

\* An answer is given at the end, and to one of those who asked.
AnsweredAtTheEnd ==
    \A r \in Requests :
        answer[r] # Nothing => pc[r] = "done" /\ answer[r] \in Asked(r)

Inv == TypeOK /\ RivalsMeet /\ HighIsAsked /\ ScannedIsId /\ AnsweredAtTheEnd

-----------------------------------------------------------------------------
LEMMA InitInv ==
    ASSUME Init
    PROVE  Inv
<1>1. TypeOK
  BY DEF Init, TypeOK, Halves, NoHalves, PCs
<1> QED
  BY <1>1 DEF Init, Inv, RivalsMeet, HighIsAsked, ScannedIsId, AnsweredAtTheEnd, InService, Own

\* A request that comes in makes rivals of those in service, and changes
\* nothing that they have asked for.
LEMMA ArriveInv ==
    ASSUME Inv, NEW r \in Requests, NEW id \in Ids \cup {BadId}, Arrive(r, id),
           me' \in SUBSET Requests
    PROVE  Inv'
<1>1. /\ pc[r] = "idle"
      /\ asked' = [asked EXCEPT ![r] = id]
      /\ pc' = [pc EXCEPT ![r] = "scan"]
      /\ rivals' = [q \in Requests |->
                      IF q = r THEN {x \in Requests : InService(x)}
                      ELSE IF InService(q) THEN rivals[q] \cup {r}
                      ELSE rivals[q]]
      /\ UNCHANGED <<parsedID, copy, answer>>
  BY DEF Arrive
<1>2. TypeOK'
  BY <1>1 DEF Inv, TypeOK, PCs
<1>3. /\ pc'[r] = "scan" /\ \A q \in Requests \ {r} : pc'[q] = pc[q]
      /\ asked'[r] = id /\ \A q \in Requests \ {r} : asked'[q] = asked[q]
  BY <1>1 DEF Inv, TypeOK
<1>4. /\ rivals'[r] = {x \in Requests : InService(x)}
      /\ \A q \in Requests \ {r} :
           rivals'[q] = IF InService(q) THEN rivals[q] \cup {r} ELSE rivals[q]
  BY <1>1
<1>5. \A q \in Requests \ {r} : pc[q] # "idle" => Asked(q) \subseteq Asked(q)'
  <2> SUFFICES ASSUME NEW q \in Requests \ {r}, pc[q] # "idle",
                      NEW x \in Own(q)
               PROVE  asked[x] \in Asked(q)'
    BY DEF Asked
  <2>1. x \in Requests /\ pc[x] # "idle"
    BY DEF Inv, TypeOK, RivalsMeet, Own
  <2>2. asked'[x] = asked[x] /\ x \in Own(q)'
    BY <1>1, <1>3, <1>4, <2>1 DEF Own
  <2> QED  BY <2>2 DEF Asked
<1>6. RivalsMeet'
  <2>1. ASSUME NEW q \in Requests, NEW p \in Requests, InService(q)', InService(p)'
        PROVE  q \in Own(p)'
    BY <1>1, <1>3, <1>4, <2>1 DEF Inv, RivalsMeet, InService, Own
  <2>2. ASSUME NEW p \in Requests, NEW q \in Own(p)', pc'[p] # "idle"
        PROVE  pc'[q] # "idle"
    BY <1>1, <1>3, <1>4, <2>2 DEF Inv, TypeOK, RivalsMeet, InService, Own
  <2> QED  BY <2>1, <2>2 DEF RivalsMeet
<1>7. HighIsAsked'
  BY <1>1, <1>3, <1>5 DEF Inv, HighIsAsked
<1>8. AnsweredAtTheEnd' /\ ScannedIsId'
  BY <1>1, <1>3, <1>5 DEF Inv, AnsweredAtTheEnd, ScannedIsId
<1> QED  BY <1>2, <1>6, <1>7, <1>8 DEF Inv

\* A step of a request in service: it may only end, and those who asked stay.
LEMMA StepInv ==
    ASSUME Inv, NEW r \in Requests, InService(r),
           NEW next \in PCs \ {"idle"}, Goto(r, next),
           UNCHANGED <<asked, me, rivals>>
    PROVE  /\ RivalsMeet'
           /\ pc' \in [Requests -> PCs]
           /\ pc'[r] = next /\ \A q \in Requests \ {r} : pc'[q] = pc[q]
           /\ \A q \in Requests : Asked(q)' = Asked(q)
           /\ \A q \in Requests : InService(q) => asked[r] \in Asked(q)
<1>1. /\ pc' \in [Requests -> PCs]
      /\ pc'[r] = next /\ \A q \in Requests \ {r} : pc'[q] = pc[q]
  BY DEF Inv, TypeOK, Goto
<1>2. \A q \in Requests : Own(q)' = Own(q) /\ Own(q) \subseteq Requests
  BY DEF Inv, TypeOK, Own
<1>3. RivalsMeet'
  <2>1. \A q \in Requests : InService(q)' => InService(q)
    BY <1>1 DEF InService
  <2>2. \A q \in Requests : pc'[q] = "idle" <=> pc[q] = "idle"
    BY <1>1 DEF InService
  <2> QED  BY <1>2, <2>1, <2>2 DEF Inv, RivalsMeet
<1>4. \A q \in Requests : Asked(q)' = Asked(q)
  BY <1>2 DEF Asked
<1>5. \A q \in Requests : InService(q) => asked[r] \in Asked(q)
  BY DEF Inv, RivalsMeet, Asked
<1> QED  BY <1>1, <1>3, <1>4, <1>5

LEMMA ServeInv ==
    ASSUME Inv, NEW r \in Requests, Serve(r)
    PROVE  Inv'
<1>1. /\ InService(r)
      /\ UNCHANGED <<asked, me, rivals>>
      /\ \E next \in PCs \ {"idle"} : Goto(r, next)
  BY DEF Serve, ScanFails, ScanHigh, ScanLow, ReadHigh, ReadLow, QueryFinds,
         QueryFails, Finish, InService, PCs
<1>2. /\ RivalsMeet'
      /\ pc' \in [Requests -> PCs]
      /\ \A q \in Requests \ {r} : pc'[q] = pc[q]
      /\ \A q \in Requests : Asked(q)' = Asked(q)
      /\ \A q \in Requests : InService(q) => asked[r] \in Asked(q)
  BY <1>1, StepInv
<1>3. asked[r] \in Ids \cup {BadId, Nothing} /\ asked[r] \in Asked(r)
  BY <1>1, <1>2 DEF Inv, TypeOK
<1>4. ScannedIsId'
  <2>1. pc'[r] = "scanning" => asked[r] # BadId
    BY <1>1 DEF Serve, ScanFails, ScanHigh, ScanLow, ReadHigh, ReadLow, QueryFinds,
                QueryFails, Finish, Goto, Inv, TypeOK
  <2> QED  BY <1>1, <1>2, <2>1 DEF Inv, ScannedIsId
<1>5. CASE ScanFails(r) \/ QueryFails(r)
  <2>1. /\ pc'[r] = "done"
        /\ answer' = [answer EXCEPT ![r] = Nothing]
        /\ UNCHANGED <<parsedID, copy>>
    BY <1>5 DEF ScanFails, QueryFails, Finish, Goto, Inv, TypeOK
  <2>2. TypeOK'
    BY <1>1, <1>2, <2>1 DEF Inv, TypeOK
  <2>3. HighIsAsked' /\ AnsweredAtTheEnd'
    BY <1>2, <2>1 DEF Inv, TypeOK, HighIsAsked, AnsweredAtTheEnd
  <2> QED  BY <1>2, <1>4, <2>2, <2>3 DEF Inv
<1>6. CASE ScanHigh(r)
  <2>1. /\ pc'[r] = "scanning"
        /\ parsedID' = [parsedID EXCEPT !.hi = asked[r]]
        /\ asked[r] # BadId
        /\ UNCHANGED <<copy, answer>>
    BY <1>6 DEF ScanHigh, Goto, Inv, TypeOK
  <2>2. parsedID' \in Halves /\ parsedID'.hi = asked[r]
    BY <1>3, <2>1 DEF Inv, TypeOK, Halves
  <2>3. TypeOK'
    BY <1>1, <1>2, <2>1, <2>2 DEF Inv, TypeOK
  <2>4. HighIsAsked' /\ AnsweredAtTheEnd'
    BY <1>1, <1>2, <2>1, <2>2 DEF Inv, HighIsAsked, AnsweredAtTheEnd, InService
  <2> QED  BY <1>2, <1>4, <2>3, <2>4 DEF Inv
<1>7. CASE ScanLow(r)
  <2>1. /\ pc[r] = "scanning" /\ pc'[r] = "read"
        /\ parsedID' = [parsedID EXCEPT !.lo = asked[r]]
        /\ UNCHANGED <<copy, answer>>
    BY <1>7 DEF ScanLow, Goto, Inv, TypeOK
  <2>2. parsedID' \in Halves /\ parsedID'.hi = parsedID.hi
    BY <1>3, <2>1 DEF Inv, ScannedIsId, TypeOK, Halves
  <2>3. TypeOK'
    BY <1>1, <1>2, <2>1, <2>2 DEF Inv, TypeOK
  <2>4. HighIsAsked' /\ AnsweredAtTheEnd'
    BY <1>2, <2>1, <2>2 DEF Inv, HighIsAsked, AnsweredAtTheEnd
  <2> QED  BY <1>2, <1>4, <2>3, <2>4 DEF Inv
<1>8. CASE ReadHigh(r)
  <2>1. /\ pc[r] = "read" /\ pc'[r] = "reading"
        /\ copy' = [copy EXCEPT ![r].hi = parsedID.hi]
        /\ UNCHANGED <<parsedID, answer>>
    BY <1>8 DEF ReadHigh, Goto, Inv, TypeOK
  <2>2. copy' \in [Requests -> Halves] /\ copy'[r].hi = parsedID.hi
        /\ \A q \in Requests \ {r} : copy'[q] = copy[q]
    BY <2>1 DEF Inv, TypeOK, Halves
  <2>3. TypeOK'
    BY <1>1, <1>2, <2>1, <2>2 DEF Inv, TypeOK
  <2>4. HighIsAsked' /\ AnsweredAtTheEnd'
    BY <1>2, <2>1, <2>2 DEF Inv, HighIsAsked, AnsweredAtTheEnd
  <2> QED  BY <1>2, <1>4, <2>3, <2>4 DEF Inv
<1>9. CASE ReadLow(r)
  <2>1. /\ pc[r] = "reading" /\ pc'[r] = "query"
        /\ copy' = [copy EXCEPT ![r].lo = parsedID.lo]
        /\ UNCHANGED <<parsedID, answer>>
    BY <1>9 DEF ReadLow, Goto, Inv, TypeOK
  <2>2. copy' \in [Requests -> Halves] /\ copy'[r].hi = copy[r].hi
        /\ \A q \in Requests \ {r} : copy'[q] = copy[q]
    BY <2>1 DEF Inv, TypeOK, Halves
  <2>3. TypeOK'
    BY <1>1, <1>2, <2>1, <2>2 DEF Inv, TypeOK
  <2>4. HighIsAsked' /\ AnsweredAtTheEnd'
    BY <1>2, <2>1, <2>2 DEF Inv, HighIsAsked, AnsweredAtTheEnd
  <2> QED  BY <1>2, <1>4, <2>3, <2>4 DEF Inv
<1>10. CASE QueryFinds(r)
  <2>1. PICK u \in Found(copy[r]) :
          pc[r] = "query" /\ Finish(r, u) /\ UNCHANGED <<parsedID, copy>>
    BY <1>10 DEF QueryFinds
  <2>2. u \in Live /\ u = copy[r].hi
    BY <2>1 DEF Found, Inv, TypeOK, Halves
  <2>3. /\ pc'[r] = "done" /\ answer' = [answer EXCEPT ![r] = u]
        /\ u \in Asked(r)
    BY <2>1, <2>2 DEF Finish, Goto, Inv, TypeOK, HighIsAsked
  <2>4. TypeOK'
    BY <1>1, <1>2, <2>1, <2>2, <2>3 DEF Inv, TypeOK
  <2>5. HighIsAsked' /\ AnsweredAtTheEnd'
    BY <1>2, <2>1, <2>3 DEF Inv, TypeOK, HighIsAsked, AnsweredAtTheEnd
  <2> QED  BY <1>2, <1>4, <2>4, <2>5 DEF Inv
<1> QED  BY <1>5, <1>6, <1>7, <1>8, <1>9, <1>10 DEF Serve

LEMMA NextInv ==
    ASSUME Inv, [Next]_vars
    PROVE  Inv'
<1>1. CASE UNCHANGED vars
  <2>1. TypeOK' /\ \A r \in Requests : Own(r)' = Own(r) /\ Asked(r)' = Asked(r)
    BY <1>1 DEF vars, Inv, TypeOK, Own, Asked
  <2> QED
    BY <1>1, <2>1 DEF vars, Inv, RivalsMeet, HighIsAsked, ScannedIsId, AnsweredAtTheEnd, InService
<1>2. CASE \E r \in Requests : GetUserByID(r) \/ GetCurrentUserByToken(r)
  BY <1>2, ArriveInv DEF GetUserByID, GetCurrentUserByToken, Inv, TypeOK
<1>3. CASE \E r \in Requests : Serve(r)
  BY <1>3, ServeInv
<1> QED  BY <1>1, <1>2, <1>3 DEF Next, Finished

-----------------------------------------------------------------------------
(***************************************************************************)
(* The inductive invariant holds.                                          *)
(***************************************************************************)
THEOREM Invariance == Spec => []Inv
<1>1. Init => Inv
  BY InitInv
<1>2. Inv /\ [Next]_vars => Inv'
  BY NextInv
<1> QED  BY <1>1, <1>2, PTL DEF Spec

(***************************************************************************)
(* Every variable of the lookups stays in its set: parsedID always holds   *)
(* two halves that ids of requests, or its first value, have.              *)
(***************************************************************************)
THEOREM TypeCorrect == Spec => []TypeOK
<1>1. Inv => TypeOK
  BY DEF Inv
<1> QED  BY <1>1, Invariance, PTL

(***************************************************************************)
(* However requests interleave in parsedID, each is answered with the user *)
(* it asked for or with one that a request of the same time asked for.     *)
(***************************************************************************)
THEOREM RaceIsBounded == Spec => []AnswerIsOwnOrRivals
<1>1. Inv => AnswerIsOwnOrRivals
  BY DEF Inv, AnsweredAtTheEnd, Asked, Own, AnswerIsOwnOrRivals
<1> QED  BY <1>1, Invariance, PTL

=============================================================================
