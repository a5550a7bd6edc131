-------------------------- MODULE HouseholdProofs ---------------------------
(***************************************************************************)
(* Proofs about the household's authority and about the process that       *)
(* serves it. The two modules share no state.                              *)
(*                                                                         *)
(* IdentityAuthority, for any household, any sets of purposes, ceremonies  *)
(* and routes and any number of receipts.                                  *)
(*                                                                         *)
(* The other parts read a subject's log only through its length and        *)
(* whether its last receipt is a grant. So each action is reduced to what  *)
(* it does to these two: an expiry and the cascade of a revoked profile    *)
(* leave both, an append changes both for one purpose. The strengthening   *)
(* over the property is that the last receipt exists wherever it is said   *)
(* to be a grant, that a template's ceremony exists, and that nothing is   *)
(* recorded of a profile never created.  Guests are apart: their part is   *)
(* an invariant of its own.                                                *)
(***************************************************************************)
EXTENDS IdentityAuthority, CoreLifecycle, TLAPS

Row == [granted : BOOLEAN, expired : BOOLEAN]
Profile == [state : {"absent", "active", "revoked"}, version : Nat, generation : Nat,
            pointers : SUBSET (Purposes \X Nat), traits : Nat, reminder : BOOLEAN]
Session == [state : OpenStates \cup {"approved", "cancelled"}, subject : Subjects, modality : Modalities,
            receipt : Nat, lapsed : BOOLEAN]
RouteRow == [state : {"issued", "consumed", "deleted"}, subject : Subjects, purpose : CloudPurposes,
             receipt : Nat, generation : Nat]

(* The latest word of a subject on a purpose is a grant. *)
Granted(s, p) == Latest(s, p) > 0 /\ receipts[s][p][Latest(s, p)].granted

LogType == receipts \in [Subjects -> [Purposes -> Seq(Row)]]
ProfileType == profile \in [Subjects -> Profile]
SessionType ==
    /\ ceremony \in [Ceremonies -> Session \cup {NoCeremony}]
    /\ template \in [Ceremonies -> {"none", "ready", "approved", "due", "revoked"}]
    /\ \A c \in Ceremonies : template[c] # "none" => ceremony[c] \in Session
RouteType == route \in [Routes -> RouteRow \cup {NoRoute}]

(* Nothing is recorded of a profile that was never created. *)
Untouched ==
    \A s \in Subjects : profile[s].state = "absent" =>
        profile[s].pointers = {} /\ \A p \in Purposes : Latest(s, p) = 0

Pointed ==
    \A s \in Subjects : Active(s) =>
        \A p \in Purposes, n \in Nat :
            <<p, n>> \in profile[s].pointers <=> Granted(s, p) /\ n = Latest(s, p)

BiometricsHeld ==
    \A c \in Ceremonies :
        ceremony[c].state \in OpenStates \/ template[c] \in {"ready", "approved", "due"} =>
            Active(ceremony[c].subject) /\ Granted(ceremony[c].subject, ceremony[c].modality)

RoutesHeld ==
    \A r \in Routes : route[r].state = "issued" =>
        /\ Active(route[r].subject) /\ profile[route[r].subject].generation = route[r].generation
        /\ Granted(route[r].subject, route[r].purpose)

IdentityInv ==
    /\ LogType /\ ProfileType /\ SessionType /\ RouteType
    /\ Untouched /\ Pointed /\ BiometricsHeld /\ RoutesHeld /\ RevokedHoldsNothing /\ PersonaOpens

(* What of the logs the other conjuncts see. *)
SameWords == \A s \in Subjects, p \in Purposes : Latest(s, p)' = Latest(s, p) /\ (Granted(s, p)' <=> Granted(s, p))

LEMMA PurposesApart ==
    /\ Modalities \subseteq Purposes /\ CloudPurposes \subseteq Purposes /\ ChildMemory \in Purposes
    /\ Personalization \in Purposes /\ Owner \in Subjects /\ Nobody \notin Subjects
  BY Zenon, IdentityAssumption DEF Purposes, Subjects

(* What an open ceremony, and a template in use, ask of the next state. *)
LEMMA BiometricsNext ==
  ASSUME SessionType',
         \A d \in Ceremonies, s \in Subjects, m \in Purposes :
            /\ s = ceremony'[d].subject /\ m = ceremony'[d].modality
            /\ ceremony'[d].state \in OpenStates \/ template'[d] \in {"ready", "approved", "due"}
            => Active(s)' /\ Granted(s, m)'
  PROVE  BiometricsHeld'
<1> SUFFICES ASSUME NEW d \in Ceremonies,
                    ceremony'[d].state \in OpenStates \/ template'[d] \in {"ready", "approved", "due"}
             PROVE  (Active(ceremony[d].subject) /\ Granted(ceremony[d].subject, ceremony[d].modality))'
  BY Zenon DEF BiometricsHeld
<1>1. ceremony'[d] \in Session
  BY DEF SessionType, OpenStates, NoCeremony
<1>2. PICK s \in Subjects, m \in Purposes : s = ceremony'[d].subject /\ m = ceremony'[d].modality
  BY Zenon, <1>1, PurposesApart DEF Session
<1>3. Active(s)' /\ Granted(s, m)'
  BY Zenon, <1>2
<1>4. QED
  BY Zenon, <1>2, <1>3 DEF Active, Granted, Latest

(* What an issued route asks of the next state. *)
LEMMA RoutesNext ==
  ASSUME RouteType',
         \A q \in Routes, s \in Subjects, p \in Purposes :
            /\ s = route'[q].subject /\ p = route'[q].purpose /\ route'[q].state = "issued"
            => Active(s)' /\ profile'[s].generation = route'[q].generation /\ Granted(s, p)'
  PROVE  RoutesHeld'
<1> SUFFICES ASSUME NEW q \in Routes, route'[q].state = "issued"
             PROVE  (/\ Active(route[q].subject) /\ profile[route[q].subject].generation = route[q].generation
                     /\ Granted(route[q].subject, route[q].purpose))'
  BY Zenon DEF RoutesHeld
<1>1. route'[q] \in RouteRow
  BY DEF RouteType, NoRoute
<1>2. PICK s \in Subjects, p \in Purposes : s = route'[q].subject /\ p = route'[q].purpose
  BY Zenon, <1>1, PurposesApart DEF RouteRow
<1>3. Active(s)' /\ profile'[s].generation = route'[q].generation /\ Granted(s, p)'
  BY Zenon, <1>2
<1>4. QED
  BY Zenon, <1>2, <1>3 DEF Active, Granted, Latest

LEMMA SameLogs == ASSUME UNCHANGED receipts PROVE SameWords
  BY Zenon DEF SameWords, Latest, Granted

LEMMA Expiring ==
  ASSUME LogType, NEW s \in Subjects, ReceiptExpires(s)
  PROVE  /\ LogType' /\ SameWords
         /\ \A t \in Subjects, p \in Purposes : \A i \in DOMAIN receipts'[t][p] :
              i \in DOMAIN receipts[t][p] /\ (receipts[t][p][i].expired => receipts'[t][p][i].expired)
<1> DEFINE n == Latest(s, ChildMemory)
           log == receipts[s][ChildMemory]
           new == [log EXCEPT ![n] = [log[n] EXCEPT !.expired = TRUE]]
<1>1. ChildMemory \in Purposes /\ log \in Seq(Row) /\ n \in Nat /\ n > 0 /\ n = Len(log)
  BY PurposesApart DEF ReceiptExpires, LogType, Latest
<1>2. receipts' = [receipts EXCEPT ![s] = [receipts[s] EXCEPT ![ChildMemory] = new]]
  BY Zenon DEF ReceiptExpires
<1>3. log[n] \in Row
  BY <1>1
<1>4. new \in Seq(Row) /\ Len(new) = n /\ DOMAIN new = 1 .. n /\ DOMAIN log = 1 .. n
  <2>1. DOMAIN log = 1 .. n /\ [log[n] EXCEPT !.expired = TRUE] \in Row
    <3> HIDE DEF log, n
    <3>1. DOMAIN log = 1 .. Len(log)
      BY <1>1
    <3>2. \A r \in Row : [r EXCEPT !.expired = TRUE] \in Row
      BY Zenon DEF Row
    <3>3. QED
      BY Zenon, <1>1, <1>3, <3>1, <3>2
  <2>2. \A r \in Row : [log EXCEPT ![n] = r] \in Seq(Row) /\ Len([log EXCEPT ![n] = r]) = Len(log)
    <3> HIDE DEF log, n
    <3>1. QED
      BY <1>1
  <2>3. QED
    BY Zenon, <1>1, <2>1, <2>2
<1>5. /\ \A i \in 1 .. n : i # n => new[i] = log[i]
      /\ new[n].granted = log[n].granted /\ new[n].expired = TRUE
  BY <1>1, <1>3 DEF Row
<1>6. receipts'[s][ChildMemory] = new /\ \A t \in Subjects, p \in Purposes :
        <<t, p>> # <<s, ChildMemory>> => receipts'[t][p] = receipts[t][p]
  BY Zenon, <1>1, <1>2 DEF LogType
<1>7. LogType'
  BY Zenon, <1>1, <1>2, <1>4 DEF LogType
<1> HIDE DEF new, log, n
<1>8. SameWords
  BY Zenon, <1>1, <1>4, <1>5, <1>6 DEF SameWords, Latest, Granted, log, n
<1>9. ASSUME NEW t \in Subjects, NEW p \in Purposes, NEW i \in DOMAIN receipts'[t][p]
      PROVE  i \in DOMAIN receipts[t][p] /\ (receipts[t][p][i].expired => receipts'[t][p][i].expired)
  BY ZenonT(40), <1>1, <1>4, <1>5, <1>6, <1>9 DEF log
<1>10. QED
  BY Zenon, <1>7, <1>8, <1>9

LEMMA Revoking ==
  ASSUME LogType, NEW s \in Subjects, receipts' = SubjectConsentsRevoked(s)
  PROVE  /\ LogType' /\ SameWords
         /\ \A p \in Purposes : \A i \in DOMAIN receipts'[s][p] : receipts'[s][p][i].expired
         /\ \A t \in Subjects : t # s => receipts'[t] = receipts[t]
<1> DEFINE old(p) == receipts[s][p]
           new(p) == [i \in DOMAIN old(p) |-> [old(p)[i] EXCEPT !.expired = TRUE]]
<1>1. receipts' = [receipts EXCEPT ![s] = [p \in Purposes |-> new(p)]]
  BY Zenon DEF SubjectConsentsRevoked
<1>2. ASSUME NEW p \in Purposes
      PROVE  /\ new(p) \in Seq(Row) /\ Len(new(p)) = Len(old(p)) /\ DOMAIN new(p) = 1 .. Len(old(p))
             /\ Len(old(p)) \in Nat
             /\ \A i \in 1 .. Len(old(p)) : new(p)[i].granted = old(p)[i].granted /\ new(p)[i].expired = TRUE
  <2>1. old(p) \in Seq(Row)
    BY Zenon DEF LogType
  <2>2. DOMAIN old(p) = 1 .. Len(old(p)) /\ Len(old(p)) \in Nat
    BY <2>1
  <2>3. \A i \in 1 .. Len(old(p)) : old(p)[i] \in Row
    BY <2>1
  <2>4. \A i \in 1 .. Len(old(p)) : new(p)[i] \in Row /\ new(p)[i].granted = old(p)[i].granted
                                  /\ new(p)[i].expired = TRUE
    BY Zenon, <2>2, <2>3 DEF Row
  <2> HIDE DEF old
  <2>5. new(p) = [i \in 1 .. Len(old(p)) |-> new(p)[i]]
    BY Zenon, <2>2
  <2>6. new(p) \in Seq(Row) /\ Len(new(p)) = Len(old(p))
    BY <2>2, <2>4, <2>5
  <2>7. QED
    BY Zenon, <2>2, <2>4, <2>6
<1> HIDE DEF new
<1>3. \A p \in Purposes : receipts'[s][p] = new(p)
  BY Zenon, <1>1 DEF LogType
<1>4. \A t \in Subjects : t # s => receipts'[t] = receipts[t]
  BY Zenon, <1>1 DEF LogType
<1>5. LogType'
  BY ZenonT(40), <1>1, <1>2 DEF LogType
<1>6. SameWords
  <2> SUFFICES ASSUME NEW t \in Subjects, NEW p \in Purposes
               PROVE  Latest(t, p)' = Latest(t, p) /\ (Granted(t, p)' <=> Granted(t, p))
    BY Zenon DEF SameWords
  <2>1. CASE t # s
    BY Zenon, <1>4, <2>1 DEF Latest, Granted
  <2>2. CASE t = s
    <3>1. Latest(t, p)' = Latest(t, p) /\ Latest(t, p) \in Nat
      BY Zenon, <1>2, <1>3, <2>2 DEF Latest
    <3>2. Latest(t, p) > 0 => receipts'[t][p][Latest(t, p)].granted = receipts[t][p][Latest(t, p)].granted
      <4>1. Latest(s, p) = Len(old(p)) /\ receipts'[s][p] = new(p) /\ Len(old(p)) \in Nat
        BY Zenon, <1>2, <1>3 DEF Latest
      <4>2. Len(old(p)) > 0 => new(p)[Len(old(p))].granted = old(p)[Len(old(p))].granted
        <5>1. \A i \in 1 .. Len(old(p)) : new(p)[i].granted = old(p)[i].granted
          BY Zenon, <1>2
        <5> HIDE DEF old
        <5>2. QED
          BY <4>1, <5>1
      <4>3. QED
        BY Zenon, <2>2, <4>1, <4>2
    <3>3. QED
      BY Zenon, <3>1, <3>2 DEF Granted
  <2>3. QED
    BY Zenon, <2>1, <2>2
<1>7. QED
  BY Zenon, <1>2, <1>3, <1>4, <1>5, <1>6

LEMMA Appending ==
  ASSUME LogType, ProfileType, NEW s \in Subjects, NEW p \in Purposes, NEW granted \in BOOLEAN,
         AppendReceipt(s, p, granted)
  PROVE  /\ LogType' /\ ProfileType'
         /\ Latest(s, p)' = Latest(s, p) + 1 /\ (Granted(s, p)' <=> granted)
         /\ \A t \in Subjects, q \in Purposes : <<t, q>> # <<s, p>> => receipts'[t][q] = receipts[t][q]
         /\ \A t \in Subjects : t # s => profile'[t] = profile[t]
         /\ profile'[s].state = profile[s].state /\ profile'[s].generation = profile[s].generation
         /\ profile'[s].version = profile[s].version /\ profile'[s].traits = profile[s].traits
         /\ \A q \in Purposes, n \in Nat : <<q, n>> \in profile'[s].pointers <=>
              IF q # p THEN <<q, n>> \in profile[s].pointers ELSE granted /\ n = Latest(s, p) + 1
<1> DEFINE log == receipts[s][p]
           row == [granted |-> granted, expired |-> ~granted]
           new == Append(log, row)
           pointers == OtherPointers(s, p) \cup (IF granted THEN {<<p, Latest(s, p) + 1>>} ELSE {})
<1>1. log \in Seq(Row) /\ Latest(s, p) = Len(log) /\ Len(log) \in Nat
  BY DEF LogType, Latest
<1>2. row \in Row /\ row.granted = granted
  BY Zenon DEF Row
<1>3. new \in Seq(Row) /\ Len(new) = Len(log) + 1 /\ new[Len(log) + 1] = row
  <2> HIDE DEF log, row
  <2>1. QED
    BY <1>1, <1>2
<1>4. receipts' = [receipts EXCEPT ![s] = [receipts[s] EXCEPT ![p] = new]]
  BY Zenon DEF AppendReceipt, Receipt
<1>5. profile' = [profile EXCEPT ![s] = [profile[s] EXCEPT !.pointers = pointers]]
  BY Zenon DEF AppendReceipt, Receipt
<1>6. profile[s] \in Profile /\ pointers \in SUBSET (Purposes \X Nat)
  BY <1>1 DEF ProfileType, Profile, OtherPointers
<1>7. \A q \in Purposes, n \in Nat : <<q, n>> \in pointers <=>
        IF q # p THEN <<q, n>> \in profile[s].pointers ELSE granted /\ n = Latest(s, p) + 1
  BY Zenon DEF OtherPointers
<1> HIDE DEF new, pointers, row
<1>8. LogType' /\ receipts'[s][p] = new /\
        \A t \in Subjects, q \in Purposes : <<t, q>> # <<s, p>> => receipts'[t][q] = receipts[t][q]
  BY Zenon, <1>3, <1>4 DEF LogType
<1>9. Latest(s, p)' = Latest(s, p) + 1 /\ (Granted(s, p)' <=> granted)
  BY <1>1, <1>2, <1>3, <1>8 DEF Latest, Granted
<1>10. ProfileType'
  BY Zenon, <1>5, <1>6 DEF ProfileType, Profile
<1>11. /\ \A t \in Subjects : t # s => profile'[t] = profile[t]
       /\ profile'[s].state = profile[s].state /\ profile'[s].generation = profile[s].generation
       /\ profile'[s].version = profile[s].version /\ profile'[s].traits = profile[s].traits
       /\ profile'[s].pointers = pointers
  BY Zenon, <1>5, <1>6 DEF ProfileType, Profile
<1>12. QED
  BY Zenon, <1>7, <1>8, <1>9, <1>10, <1>11

(* The parts of the invariant that the logs and the profiles decide, over a step that adds
   one receipt to the log of an active subject. *)
LEMMA AppendKeeps ==
  ASSUME IdentityInv, NEW s \in Subjects, NEW p \in Purposes, NEW granted \in BOOLEAN,
         AppendReceipt(s, p, granted), Active(s), UNCHANGED speaker \/ speaker' = Nobody
  PROVE  /\ LogType' /\ ProfileType' /\ Untouched' /\ Pointed' /\ RevokedHoldsNothing' /\ PersonaOpens'
         /\ \A t \in Subjects : Active(t)' <=> Active(t)
         /\ \A t \in Subjects : profile'[t].generation = profile[t].generation
         /\ \A t \in Subjects, q \in Purposes : Granted(t, q)' <=>
              IF <<t, q>> = <<s, p>> THEN granted ELSE Granted(t, q)
<1> USE DEF IdentityInv
<1>1. /\ LogType' /\ ProfileType'
      /\ Latest(s, p)' = Latest(s, p) + 1 /\ (Granted(s, p)' <=> granted)
      /\ \A t \in Subjects, q \in Purposes : <<t, q>> # <<s, p>> => receipts'[t][q] = receipts[t][q]
      /\ \A t \in Subjects : t # s => profile'[t] = profile[t]
      /\ profile'[s].state = profile[s].state /\ profile'[s].generation = profile[s].generation
      /\ profile'[s].version = profile[s].version /\ profile'[s].traits = profile[s].traits
      /\ \A q \in Purposes, n \in Nat : <<q, n>> \in profile'[s].pointers <=>
           IF q # p THEN <<q, n>> \in profile[s].pointers ELSE granted /\ n = Latest(s, p) + 1
  BY Appending
<1>2. \A t \in Subjects, q \in Purposes : <<t, q>> # <<s, p>> =>
        Latest(t, q)' = Latest(t, q) /\ (Granted(t, q)' <=> Granted(t, q))
  BY Zenon, <1>1 DEF Latest, Granted
<1>3. \A t \in Subjects : (Active(t)' <=> Active(t)) /\ profile'[t].generation = profile[t].generation
  BY Zenon, <1>1 DEF Active
<1>4. Untouched'
  <2> SUFFICES ASSUME NEW t \in Subjects, profile'[t].state = "absent"
               PROVE  profile'[t].pointers = {} /\ \A q \in Purposes : Latest(t, q)' = 0
    BY Zenon DEF Untouched
  <2>1. t # s
    BY Zenon, <1>1 DEF Active
  <2>2. QED
    BY <1>1, <1>2, <2>1 DEF Untouched
<1>5. Pointed'
  <2> SUFFICES ASSUME NEW t \in Subjects, Active(t), NEW q \in Purposes, NEW n \in Nat
               PROVE  <<q, n>> \in profile'[t].pointers <=> Granted(t, q)' /\ n = Latest(t, q)'
    BY Zenon, <1>3 DEF Pointed
  <2>1. CASE <<t, q>> = <<s, p>>
    BY Zenon, <1>1, <2>1
  <2>2. CASE <<t, q>> # <<s, p>>
    BY <1>1, <1>2, <2>2 DEF Pointed
  <2>3. QED
    BY Zenon, <2>1, <2>2
<1>6. RevokedHoldsNothing'
  <2> SUFFICES ASSUME NEW t \in Subjects, profile'[t].state = "revoked"
               PROVE  speaker' # t /\ \A q \in Purposes :
                        \A i \in DOMAIN receipts'[t][q] : receipts'[t][q][i].expired
    BY Zenon DEF RevokedHoldsNothing
  <2>1. t # s /\ profile[t].state = "revoked"
    BY Zenon, <1>1 DEF Active
  <2>2. QED
    BY ZenonT(40), <1>1, <2>1, PurposesApart DEF RevokedHoldsNothing
<1>7. PersonaOpens'
  BY Zenon, <1>1 DEF PersonaOpens, Active
<1>8. QED
  BY Zenon, <1>1, <1>2, <1>3, <1>4, <1>5, <1>6, <1>7

(* No profile's authority and no subject's word changes. *)
Standing ==
    /\ SameWords
    /\ \A t \in Subjects : (Active(t)' <=> Active(t)) /\ profile'[t].generation = profile[t].generation

LEMMA ProfilesStand ==
  ASSUME IdentityInv, SameWords,
         \A t \in Subjects :
            /\ profile'[t].state = profile[t].state /\ profile'[t].generation = profile[t].generation
            /\ profile'[t].pointers = profile[t].pointers
            /\ profile'[t].traits # 0 => \/ profile'[t].traits = profile'[t].version
                                         \/ profile'[t].traits = profile[t].traits /\ profile'[t].version = profile[t].version
  PROVE  Standing /\ Untouched' /\ Pointed' /\ PersonaOpens'
<1>1. Standing
  BY Zenon DEF Standing, Active
<1>2. Untouched' /\ Pointed'
  BY <1>1 DEF IdentityInv, Standing, SameWords, Untouched, Pointed
<1>3. PersonaOpens'
  BY Zenon DEF IdentityInv, PersonaOpens, Active
<1>4. QED
  BY Zenon, <1>1, <1>2, <1>3

LEMMA RoutesStand == ASSUME IdentityInv, Standing, UNCHANGED route PROVE RouteType' /\ RoutesHeld'
<1>1. RouteType'
  BY Zenon DEF IdentityInv, RouteType
<1> SUFFICES ASSUME NEW r \in Routes, route[r].state = "issued"
             PROVE  /\ Active(route[r].subject)' /\ profile'[route[r].subject].generation = route[r].generation
                    /\ Granted(route[r].subject, route[r].purpose)'
  BY Zenon, <1>1 DEF RoutesHeld
<1>2. route[r].subject \in Subjects /\ route[r].purpose \in Purposes
  BY PurposesApart DEF IdentityInv, RouteType, RouteRow, NoRoute
<1>3. QED
  BY Zenon, <1>2 DEF IdentityInv, RoutesHeld, Standing, SameWords

(* A ceremony's step and its template's, under the same profiles and words. *)
LEMMA CeremonyStands ==
  ASSUME IdentityInv, Standing, NEW c \in Ceremonies, ceremony[c] \in Session,
         NEW x \in Session, ceremony' = [ceremony EXCEPT ![c] = x],
         NEW t \in {"none", "ready", "approved", "due", "revoked"}, template' = [template EXCEPT ![c] = t],
         x.subject = ceremony[c].subject, x.modality = ceremony[c].modality,
         x.state \in OpenStates \/ t \in {"ready", "approved", "due"} =>
             \/ ceremony[c].state \in OpenStates \/ template[c] \in {"ready", "approved", "due"}
             \/ Active(x.subject) /\ Granted(x.subject, x.modality)
  PROVE  SessionType' /\ BiometricsHeld'
<1>1. SessionType'
  BY Zenon DEF IdentityInv, SessionType
<1>2. /\ ceremony'[c] = x /\ template'[c] = t
      /\ \A d \in Ceremonies : d # c => ceremony'[d] = ceremony[d] /\ template'[d] = template[d]
  BY Zenon DEF IdentityInv, SessionType
<1>3. BiometricsHeld'
  <2> SUFFICES ASSUME NEW d \in Ceremonies, NEW s \in Subjects, NEW m \in Purposes,
                      s = ceremony'[d].subject, m = ceremony'[d].modality,
                      ceremony'[d].state \in OpenStates \/ template'[d] \in {"ready", "approved", "due"}
               PROVE  Active(s)' /\ Granted(s, m)'
    BY Zenon, <1>1, BiometricsNext
  <2>1. Active(s) /\ Granted(s, m)
    BY ZenonT(40), <1>2 DEF IdentityInv, BiometricsHeld
  <2>2. QED
    BY Zenon, <2>1 DEF Standing, SameWords
<1>4. QED
  BY Zenon, <1>1, <1>3

LEMMA CeremoniesStand == ASSUME IdentityInv, Standing, UNCHANGED <<ceremony, template>> PROVE SessionType' /\ BiometricsHeld'
<1>1. SessionType'
  BY Zenon DEF IdentityInv, SessionType
<1>2. BiometricsHeld'
  <2> SUFFICES ASSUME NEW d \in Ceremonies,
                      ceremony[d].state \in OpenStates \/ template[d] \in {"ready", "approved", "due"}
               PROVE  Active(ceremony[d].subject)' /\ Granted(ceremony[d].subject, ceremony[d].modality)'
    BY Zenon DEF BiometricsHeld, OpenStates
  <2>1. Active(ceremony[d].subject) /\ Granted(ceremony[d].subject, ceremony[d].modality)
    BY Zenon DEF IdentityInv, BiometricsHeld
  <2>2. ceremony[d].subject \in Subjects /\ ceremony[d].modality \in Purposes
    BY <1>1, PurposesApart DEF SessionType, Session, NoCeremony, OpenStates
  <2>3. QED
    BY Zenon, <2>1, <2>2 DEF Standing, SameWords
<1>3. QED
  BY Zenon, <1>1, <1>2

(* Enrollment changes no profile but for the reminder. *)
LEMMA EnrollmentStep ==
  ASSUME IdentityInv, NEW c \in Ceremonies,
         \/ \E s \in Subjects, m \in Modalities, v \in 1 .. MaxVersion,
               n \in 1 .. MaxReceipts : RequestEnrollment(c, s, m, v, n)
         \/ BeginCapture(c) \/ MarkCalibrating(c) \/ CancelEnrollment(c)
         \/ StoreTemplate(c) \/ CeremonyLapses(c) \/ CompleteEnrollment(c)
         \/ HardExpiryPasses(c)
  PROVE  IdentityInv'
<1> DEFINE Open == ceremony[c].state \in OpenStates \/ template[c] \in {"ready", "approved", "due"}
<1>1. UNCHANGED <<receipts, route, speaker>>
  BY Zenon DEF RequestEnrollment, NewEnrollment, BeginCapture, MarkCalibrating, Transition, CancelEnrollment, StoreTemplate,
         CeremonyLapses, CompleteEnrollment, HardExpiryPasses
<1>2. SameWords
  BY Zenon, <1>1, SameLogs
<1>3. ASSUME UNCHANGED profile \/ (ceremony[c] \in Session /\ Approve(c))
      PROVE  /\ LogType' /\ ProfileType' /\ Standing /\ Untouched' /\ Pointed' /\ PersonaOpens'
             /\ RevokedHoldsNothing' /\ RouteType' /\ RoutesHeld'
  <2>1. ProfileType' /\ \A t \in Subjects :
            /\ profile'[t].state = profile[t].state /\ profile'[t].generation = profile[t].generation
            /\ profile'[t].pointers = profile[t].pointers
            /\ profile'[t].traits = profile[t].traits /\ profile'[t].version = profile[t].version
    <3>1. CASE UNCHANGED profile
      BY Zenon, <3>1 DEF IdentityInv, ProfileType
    <3>2. CASE ceremony[c] \in Session /\ Approve(c)
      <4>1. PICK b \in BOOLEAN : profile' = [profile EXCEPT ![ceremony[c].subject] = [profile[ceremony[c].subject] EXCEPT !.reminder = b]]
        BY Zenon, <3>2 DEF Approve, IdentityInv, ProfileType, Profile, Session
      <4>2. QED
        BY <3>2, <4>1 DEF IdentityInv, ProfileType, Profile, Session
    <3>3. QED
      BY Zenon, <1>3, <3>1, <3>2
  <2>2. Standing /\ Untouched' /\ Pointed' /\ PersonaOpens'
    BY Zenon, <1>2, <2>1, ProfilesStand
  <2>3. LogType' /\ RevokedHoldsNothing'
    BY Zenon, <1>1, <2>1 DEF IdentityInv, LogType, RevokedHoldsNothing
  <2>4. QED
    BY Zenon, <1>1, <2>1, <2>2, <2>3, RoutesStand
<1>4. ASSUME ceremony[c] \in Session, UNCHANGED profile \/ Approve(c), NEW x \in Session,
             ceremony' = [ceremony EXCEPT ![c] = x],
             NEW t \in {"none", "ready", "approved", "due", "revoked"}, template' = [template EXCEPT ![c] = t],
             x.subject = ceremony[c].subject, x.modality = ceremony[c].modality,
             x.state \in OpenStates \/ t \in {"ready", "approved", "due"} => Open
      PROVE  IdentityInv'
  BY Zenon, <1>3, <1>4, CeremonyStands DEF IdentityInv
<1>5. ASSUME NEW s \in Subjects, NEW m \in Modalities, NEW v \in 1 .. MaxVersion, NEW n \in 1 .. MaxReceipts,
             RequestEnrollment(c, s, m, v, n)
      PROVE  IdentityInv'
  <2> DEFINE x == [state |-> "requested", subject |-> s, modality |-> m, receipt |-> n, lapsed |-> FALSE]
  <2>1. /\ UNCHANGED <<profile, template>> /\ ceremony' = [ceremony EXCEPT ![c] = x]
        /\ Active(s) /\ Granted(s, m)
    BY Zenon, <1>5 DEF RequestEnrollment, NewEnrollment, IsCurrent, Granted
  <2>2. x \in Session /\ x.subject = s /\ x.modality = m /\ n \in Nat
    BY IdentityAssumption DEF Session, OpenStates
  <2> HIDE DEF x
  <2>3. SessionType'
    BY Zenon, <2>1, <2>2 DEF IdentityInv, SessionType
  <2>4. /\ ceremony'[c] = x
        /\ \A d \in Ceremonies : d # c => ceremony'[d] = ceremony[d]
    BY Zenon, <2>1 DEF IdentityInv, SessionType
  <2>5. Standing
    BY Zenon, <1>3, <2>1
  <2>6. BiometricsHeld'
    <3> SUFFICES ASSUME NEW d \in Ceremonies, NEW t \in Subjects, NEW q \in Purposes,
                        t = ceremony'[d].subject, q = ceremony'[d].modality,
                        ceremony'[d].state \in OpenStates \/ template'[d] \in {"ready", "approved", "due"}
                 PROVE  Active(t)' /\ Granted(t, q)'
      BY Zenon, <2>3, BiometricsNext
    <3>1. Active(t) /\ Granted(t, q)
      BY Zenon, <2>1, <2>2, <2>4 DEF IdentityInv, BiometricsHeld
    <3>2. QED
      BY Zenon, <2>5, <3>1 DEF Standing, SameWords
  <2>7. QED
    BY Zenon, <1>3, <2>1, <2>3, <2>6 DEF IdentityInv
<1>6. ASSUME NEW to \in OpenStates \cup {"approved", "cancelled"}, NEW late \in BOOLEAN, ceremony[c].state \in OpenStates,
             ceremony' = [ceremony EXCEPT ![c] = [ceremony[c] EXCEPT !.state = to, !.lapsed = late]],
             UNCHANGED <<profile, template>>
      PROVE  IdentityInv'
  <2>1. ceremony[c] \in Session
    BY <1>6 DEF IdentityInv, SessionType, NoCeremony, OpenStates
  <2>2. /\ [ceremony[c] EXCEPT !.state = to, !.lapsed = late] \in Session
        /\ [ceremony[c] EXCEPT !.state = to, !.lapsed = late].subject = ceremony[c].subject
        /\ [ceremony[c] EXCEPT !.state = to, !.lapsed = late].modality = ceremony[c].modality
    BY Zenon, <2>1 DEF Session
  <2>3. template' = [template EXCEPT ![c] = template[c]] /\ template[c] \in {"none", "ready", "approved", "due", "revoked"}
    BY Zenon, <1>6 DEF IdentityInv, SessionType
  <2>4. QED
    BY Zenon, <1>4, <1>6, <2>1, <2>2, <2>3
<1>7. CASE BeginCapture(c) \/ MarkCalibrating(c) \/ CancelEnrollment(c) \/ CeremonyLapses(c)
  <2>1. ceremony[c].state \in OpenStates /\ UNCHANGED <<profile, template>>
    BY Zenon, <1>7 DEF BeginCapture, MarkCalibrating, Transition, CancelEnrollment, CeremonyLapses, OpenStates
  <2>2. ceremony[c] \in Session
    BY SMTT(20), <2>1 DEF IdentityInv, SessionType, NoCeremony, OpenStates
  <2>3. PICK to \in OpenStates \cup {"approved", "cancelled"}, late \in BOOLEAN :
          ceremony' = [ceremony EXCEPT ![c] = [ceremony[c] EXCEPT !.state = to, !.lapsed = late]]
    <3>1. \A to : [ceremony[c] EXCEPT !.state = to] = [ceremony[c] EXCEPT !.state = to, !.lapsed = ceremony[c].lapsed]
      BY Zenon, <2>2 DEF Session
    <3>2. [ceremony[c] EXCEPT !.lapsed = TRUE] = [ceremony[c] EXCEPT !.state = ceremony[c].state, !.lapsed = TRUE]
      BY Zenon, <2>2 DEF Session
    <3>3. ceremony[c].lapsed \in BOOLEAN
      BY Zenon, <2>2 DEF Session
    <3>4. CASE BeginCapture(c) \/ MarkCalibrating(c)
      <4>1. PICK to \in OpenStates : ceremony' = [ceremony EXCEPT ![c].state = to]
        BY SMTT(20), <3>4 DEF BeginCapture, MarkCalibrating, Transition, OpenStates
      <4>2. ceremony' = [ceremony EXCEPT ![c] = [ceremony[c] EXCEPT !.state = to, !.lapsed = ceremony[c].lapsed]]
        BY ZenonT(40), <3>1, <4>1
      <4>3. QED
        BY Zenon, <3>3, <4>2
    <3>5. CASE CancelEnrollment(c)
      BY Zenon, <3>1, <3>3, <3>5 DEF CancelEnrollment
    <3>6. CASE CeremonyLapses(c)
      BY Zenon, <3>2, <3>6 DEF CeremonyLapses
    <3>7. QED
      BY Zenon, <1>7, <3>4, <3>5, <3>6
  <2>4. QED
    BY Zenon, <1>6, <2>1, <2>3
<1>8. CASE StoreTemplate(c)
  <2>1. ceremony[c].state \in OpenStates /\ UNCHANGED <<profile, ceremony>> /\ template' = [template EXCEPT ![c] = "ready"]
    BY Zenon, <1>8 DEF StoreTemplate, OpenStates
  <2>2. ceremony[c] \in Session /\ ceremony' = [ceremony EXCEPT ![c] = ceremony[c]]
    BY <2>1 DEF IdentityInv, SessionType, NoCeremony, OpenStates
  <2>3. QED
    BY Zenon, <1>4, <2>1, <2>2
<1>9. CASE CompleteEnrollment(c)
  <2>1. ceremony[c].state \in OpenStates /\ Approve(c)
    BY Zenon, <1>9 DEF CompleteEnrollment, OpenStates
  <2>2. ceremony[c] \in Session
    BY <2>1 DEF IdentityInv, SessionType, NoCeremony, OpenStates
  <2>3. /\ [ceremony[c] EXCEPT !.state = "approved"] \in Session
        /\ [ceremony[c] EXCEPT !.state = "approved"].subject = ceremony[c].subject
        /\ [ceremony[c] EXCEPT !.state = "approved"].modality = ceremony[c].modality
    BY Zenon, <2>2 DEF Session
  <2>4. ceremony' = [ceremony EXCEPT ![c] = [ceremony[c] EXCEPT !.state = "approved"]]
        /\ template' = [template EXCEPT ![c] = "approved"]
    BY Zenon, <2>1 DEF Approve
  <2>5. QED
    BY Zenon, <1>4, <2>1, <2>2, <2>3, <2>4
<1>10. CASE HardExpiryPasses(c)
  <2>1. template[c] = "approved" /\ UNCHANGED <<profile, ceremony>> /\ template' = [template EXCEPT ![c] = "due"]
    BY Zenon, <1>10 DEF HardExpiryPasses
  <2>2. ceremony[c] \in Session /\ ceremony' = [ceremony EXCEPT ![c] = ceremony[c]]
    BY Zenon, <2>1 DEF IdentityInv, SessionType
  <2>3. QED
    BY Zenon, <1>4, <2>1, <2>2
<1>11. QED
  BY Zenon, <1>5, <1>7, <1>8, <1>9, <1>10

LEMMA ExpireDueStep == ASSUME IdentityInv, ExpireDueChildTemplates PROVE IdentityInv'
<1> DEFINE due == {c \in Ceremonies : template[c] = "due" /\ Active(ceremony[c].subject)}
<1>1. /\ UNCHANGED <<receipts, ceremony, route, speaker>>
      /\ template' = [c \in Ceremonies |-> IF c \in due THEN "revoked" ELSE template[c]]
  BY Zenon DEF ExpireDueChildTemplates
<1>2. \A s \in Subjects : profile'[s] = profile[s] \/ profile'[s] = [profile[s] EXCEPT !.reminder = FALSE]
  BY Zenon DEF ExpireDueChildTemplates
<1>3. DOMAIN profile' = Subjects /\ profile' = [s \in Subjects |-> profile'[s]]
  BY Zenon DEF ExpireDueChildTemplates
<1>4. ProfileType' /\ \A t \in Subjects :
            /\ profile'[t].state = profile[t].state /\ profile'[t].generation = profile[t].generation
            /\ profile'[t].pointers = profile[t].pointers
            /\ profile'[t].traits = profile[t].traits /\ profile'[t].version = profile[t].version
  <2>1. \A t \in Subjects : profile[t] \in Profile
    BY Zenon DEF IdentityInv, ProfileType
  <2>2. ASSUME NEW t \in Subjects
        PROVE  /\ profile'[t] \in Profile
               /\ profile'[t].state = profile[t].state /\ profile'[t].generation = profile[t].generation
               /\ profile'[t].pointers = profile[t].pointers
               /\ profile'[t].traits = profile[t].traits /\ profile'[t].version = profile[t].version
    <3>1. CASE profile'[t] = profile[t]
      BY Zenon, <2>1, <3>1
    <3>2. CASE profile'[t] = [profile[t] EXCEPT !.reminder = FALSE]
      BY Zenon, <2>1, <3>2 DEF Profile
    <3>3. QED
      BY Zenon, <1>2, <3>1, <3>2
  <2>3. ProfileType'
    BY Zenon, <1>3, <2>2 DEF ProfileType
  <2>4. QED
    BY Zenon, <2>2, <2>3
<1>5. SameWords
  BY Zenon, <1>1, SameLogs
<1>6. Standing /\ Untouched' /\ Pointed' /\ PersonaOpens'
  BY Zenon, <1>4, <1>5, ProfilesStand
<1>7. LogType' /\ RevokedHoldsNothing'
  BY Zenon, <1>1, <1>4 DEF IdentityInv, LogType, RevokedHoldsNothing
<1>8. SessionType'
  BY Zenon, <1>1 DEF IdentityInv, SessionType
<1>9. BiometricsHeld'
  <2> SUFFICES ASSUME NEW d \in Ceremonies, NEW s \in Subjects, NEW m \in Purposes,
                      s = ceremony'[d].subject, m = ceremony'[d].modality,
                      ceremony'[d].state \in OpenStates \/ template'[d] \in {"ready", "approved", "due"}
               PROVE  Active(s)' /\ Granted(s, m)'
    BY Zenon, <1>8, BiometricsNext
  <2>1. Active(s) /\ Granted(s, m)
    BY Zenon, <1>1 DEF IdentityInv, BiometricsHeld
  <2>2. QED
    BY Zenon, <1>6, <2>1 DEF Standing, SameWords
<1>10. QED
  BY Zenon, <1>1, <1>4, <1>6, <1>7, <1>8, <1>9, RoutesStand DEF IdentityInv

LEMMA RouteStep ==
  ASSUME IdentityInv, NEW r \in Routes, (\E s \in Subjects, p \in CloudPurposes : Authorize(r, s, p)) \/ Consume(r)
  PROVE  IdentityInv'
<1>1. UNCHANGED <<profile, receipts, ceremony, template, speaker>>
  BY Zenon DEF Authorize, Consume
<1>2. Standing
  BY Zenon, <1>1, SameLogs DEF Standing, Active
<1>3. /\ LogType' /\ ProfileType' /\ SessionType' /\ Untouched' /\ Pointed' /\ BiometricsHeld'
      /\ RevokedHoldsNothing' /\ PersonaOpens'
  <2>1. LogType' /\ ProfileType' /\ SessionType' /\ PersonaOpens' /\ RevokedHoldsNothing'
    BY Zenon, <1>1 DEF IdentityInv, LogType, ProfileType, SessionType, PersonaOpens, RevokedHoldsNothing, Active
  <2>2. Untouched'
    BY Zenon, <1>1 DEF IdentityInv, Untouched, Latest
  <2>3. Pointed'
    BY ZenonT(40), <1>1 DEF IdentityInv, Pointed, Active, Granted, Latest
  <2>4. BiometricsHeld'
    BY Zenon, <1>1 DEF IdentityInv, BiometricsHeld, Active, Granted, Latest
  <2>5. QED
    BY Zenon, <2>1, <2>2, <2>3, <2>4
<1>4. ASSUME NEW x \in RouteRow, route' = [route EXCEPT ![r] = x],
             x.state = "issued" => /\ Active(x.subject) /\ profile[x.subject].generation = x.generation
                                   /\ Granted(x.subject, x.purpose)
      PROVE  RouteType' /\ RoutesHeld'
  <2>1. RouteType' /\ route'[r] = x /\ \A q \in Routes : q # r => route'[q] = route[q]
    BY Zenon, <1>4 DEF IdentityInv, RouteType
  <2> SUFFICES ASSUME NEW q \in Routes, NEW s \in Subjects, NEW p \in Purposes,
                      s = route'[q].subject, p = route'[q].purpose, route'[q].state = "issued"
               PROVE  Active(s)' /\ profile'[s].generation = route'[q].generation /\ Granted(s, p)'
    BY Zenon, <2>1, RoutesNext
  <2>2. Active(s) /\ profile[s].generation = route'[q].generation /\ Granted(s, p)
    BY Zenon, <1>4, <2>1 DEF IdentityInv, RoutesHeld
  <2>3. QED
    BY Zenon, <1>2, <2>2 DEF Standing, SameWords
<1>5. ASSUME NEW s \in Subjects, NEW p \in CloudPurposes, Authorize(r, s, p) PROVE RouteType' /\ RoutesHeld'
  <2> DEFINE x == [state |-> "issued", subject |-> s, purpose |-> p, receipt |-> Latest(s, p),
                   generation |-> profile[s].generation]
  <2>1. Latest(s, p) \in Nat /\ profile[s].generation \in Nat
    BY PurposesApart DEF IdentityInv, LogType, ProfileType, Profile, Latest
  <2>2. x \in RouteRow /\ x.subject = s /\ x.purpose = p /\ x.generation = profile[s].generation
    BY Zenon, <2>1 DEF RouteRow
  <2>3. route' = [route EXCEPT ![r] = x] /\ Active(s) /\ Granted(s, p)
    BY Zenon, <1>5 DEF Authorize, IsCurrent, Granted
  <2> HIDE DEF x
  <2>4. QED
    BY ZenonT(40), <1>4, <2>2, <2>3
<1>6. CASE Consume(r)
  <2>1. route[r] \in RouteRow
    BY <1>6 DEF Consume, IdentityInv, RouteType, NoRoute
  <2> DEFINE x == [route[r] EXCEPT !.state = "consumed"]
  <2>2. x \in RouteRow /\ x.state # "issued"
    BY Zenon, <2>1 DEF RouteRow
  <2>3. route' = [route EXCEPT ![r] = x]
    BY SMTT(20), <1>6 DEF Consume
  <2> HIDE DEF x
  <2>4. x.state = "issued" => /\ Active(x.subject) /\ profile[x.subject].generation = x.generation
                             /\ Granted(x.subject, x.purpose)
    BY SMTT(20), <2>2
  <2>5. QED
    BY Zenon, <1>3, <1>4, <2>2, <2>3, <2>4 DEF IdentityInv
<1>7. QED
  BY Zenon, <1>3, <1>5, <1>6 DEF IdentityInv

LEMMA ConsentStep ==
  ASSUME IdentityInv, NEW s \in Subjects, NEW p \in Purposes, NEW actor \in Subjects, NEW expected,
         GrantConsent(s, p, actor, expected) \/ RevokeConsent(s, p, actor, expected)
  PROVE  IdentityInv'
<1>1. PICK granted \in BOOLEAN :
        /\ AppendReceipt(s, p, granted) /\ Active(s)
        /\ granted => UNCHANGED <<ceremony, template, route, speaker>>
        /\ ~granted => ConsentCascade(s, p)
  BY Zenon DEF GrantConsent, RevokeConsent
<1>2. UNCHANGED speaker \/ speaker' = Nobody
  BY Zenon, <1>1 DEF ConsentCascade, SpeakerInvalidated
<1>3. /\ LogType' /\ ProfileType' /\ Untouched' /\ Pointed' /\ RevokedHoldsNothing' /\ PersonaOpens'
      /\ \A t \in Subjects : Active(t)' <=> Active(t)
      /\ \A t \in Subjects : profile'[t].generation = profile[t].generation
      /\ \A t \in Subjects, q \in Purposes : Granted(t, q)' <=>
           IF <<t, q>> = <<s, p>> THEN granted ELSE Granted(t, q)
  BY Zenon, <1>1, <1>2, AppendKeeps
<1>4. SessionType' /\ \A d \in Ceremonies :
        /\ ceremony'[d].state \in OpenStates \/ template'[d] \in {"ready", "approved", "due"} =>
             /\ ceremony[d].state \in OpenStates \/ template[d] \in {"ready", "approved", "due"}
             /\ ceremony'[d].subject = ceremony[d].subject /\ ceremony'[d].modality = ceremony[d].modality
             /\ ~granted => <<ceremony[d].subject, ceremony[d].modality>> # <<s, p>>
  <2>1. CASE granted \/ p \notin Modalities
    <3>1. UNCHANGED <<ceremony, template>>
      BY Zenon, <1>1, <2>1 DEF ConsentCascade
    <3>2. \A d \in Ceremonies : ceremony[d].state \in OpenStates \/ template[d] \in {"ready", "approved", "due"} =>
             ceremony[d].modality \in Modalities
      BY DEF IdentityInv, SessionType, Session, NoCeremony, OpenStates
    <3>3. QED
      BY Zenon, <2>1, <3>1, <3>2 DEF IdentityInv, SessionType
  <2>2. CASE ~granted /\ p \in Modalities
    <3>1. ceremony' = CeremoniesCancelled(s, {p}) /\ template' = TemplatesRevoked(s, {p})
      BY Zenon, <1>1, <2>2 DEF ConsentCascade
    <3>2. ASSUME NEW d \in Ceremonies
          PROVE  /\ ceremony'[d] \in Session \cup {NoCeremony}
                 /\ ceremony[d] \in Session => ceremony'[d] \in Session
                 /\ ceremony'[d].state \in OpenStates =>
                      ceremony'[d] = ceremony[d] /\ <<ceremony[d].subject, ceremony[d].modality>> # <<s, p>>
                 /\ ceremony[d] \in Session =>
                      ceremony'[d].subject = ceremony[d].subject /\ ceremony'[d].modality = ceremony[d].modality
      <4>1. ceremony[d] \in Session \cup {NoCeremony}
        BY Zenon DEF IdentityInv, SessionType
      <4>2. ceremony'[d] = IF /\ ceremony[d].state \in OpenStates
                              /\ ceremony[d].subject = s /\ ceremony[d].modality \in {p}
                           THEN [ceremony[d] EXCEPT !.state = "cancelled"] ELSE ceremony[d]
        BY Zenon, <3>1 DEF CeremoniesCancelled
      <4>3. QED
        BY <4>1, <4>2 DEF Session, NoCeremony, OpenStates
    <3>3. \A d \in Ceremonies :
            /\ template'[d] \in {"none", "ready", "approved", "due", "revoked"}
            /\ template'[d] # "none" => template[d] # "none"
            /\ template'[d] \in {"ready", "approved", "due"} =>
                 template'[d] = template[d] /\ <<ceremony[d].subject, ceremony[d].modality>> # <<s, p>>
      BY Zenon, <3>1 DEF TemplatesRevoked, IdentityInv, SessionType
    <3>4. ceremony' \in [Ceremonies -> Session \cup {NoCeremony}]
      BY Zenon, <3>1, <3>2 DEF CeremoniesCancelled
    <3>5. template' \in [Ceremonies -> {"none", "ready", "approved", "due", "revoked"}]
      BY Zenon, <3>1, <3>3 DEF TemplatesRevoked
    <3>6. SessionType'
      BY Zenon, <3>2, <3>3, <3>4, <3>5 DEF IdentityInv, SessionType
    <3>7. ASSUME NEW d \in Ceremonies,
                 ceremony'[d].state \in OpenStates \/ template'[d] \in {"ready", "approved", "due"}
          PROVE  /\ ceremony[d].state \in OpenStates \/ template[d] \in {"ready", "approved", "due"}
                 /\ ceremony'[d].subject = ceremony[d].subject /\ ceremony'[d].modality = ceremony[d].modality
                 /\ <<ceremony[d].subject, ceremony[d].modality>> # <<s, p>>
      BY Zenon, <3>2, <3>3, <3>7 DEF IdentityInv, SessionType
    <3>8. QED
      BY Zenon, <3>6, <3>7
  <2>3. QED
    BY Zenon, <2>1, <2>2
<1>5. BiometricsHeld'
  <2> SUFFICES ASSUME NEW d \in Ceremonies, NEW t \in Subjects, NEW q \in Purposes,
                      t = ceremony'[d].subject, q = ceremony'[d].modality,
                      ceremony'[d].state \in OpenStates \/ template'[d] \in {"ready", "approved", "due"}
               PROVE  Active(t)' /\ Granted(t, q)'
    BY Zenon, <1>4, BiometricsNext
  <2>1. Active(t) /\ Granted(t, q) /\ (~granted => <<t, q>> # <<s, p>>)
    BY Zenon, <1>4 DEF IdentityInv, BiometricsHeld
  <2>2. QED
    BY Zenon, <1>3, <2>1
<1>6. RouteType' /\ \A r \in Routes : route'[r].state = "issued" =>
        route'[r] = route[r] /\ (~granted => <<route[r].subject, route[r].purpose>> # <<s, p>>)
  <2>1. CASE granted \/ p \notin CloudPurposes
    <3>1. UNCHANGED route
      BY Zenon, <1>1, <2>1 DEF ConsentCascade
    <3>2. \A r \in Routes : route[r].state = "issued" => route[r].purpose \in CloudPurposes
      BY DEF IdentityInv, RouteType, RouteRow, NoRoute
    <3>3. QED
      BY Zenon, <2>1, <3>1, <3>2 DEF IdentityInv, RouteType
  <2>2. CASE ~granted /\ p \in CloudPurposes
    <3>1. route' = RoutesInvalidated(s, {p})
      BY Zenon, <1>1, <2>2 DEF ConsentCascade
    <3>2. ASSUME NEW r \in Routes
          PROVE  /\ route'[r] \in RouteRow \cup {NoRoute}
                 /\ route'[r].state = "issued" =>
                      route'[r] = route[r] /\ <<route[r].subject, route[r].purpose>> # <<s, p>>
      <4>1. route[r] \in RouteRow \cup {NoRoute}
        BY Zenon DEF IdentityInv, RouteType
      <4>2. route'[r] = IF /\ route[r].state = "issued"
                           /\ route[r].subject = s /\ route[r].purpose \in {p}
                        THEN [route[r] EXCEPT !.state = "deleted"] ELSE route[r]
        BY Zenon, <3>1 DEF RoutesInvalidated
      <4>3. QED
        BY <4>1, <4>2 DEF RouteRow, NoRoute
    <3>3. QED
      BY Zenon, <3>1, <3>2 DEF RouteType, RoutesInvalidated
  <2>3. QED
    BY Zenon, <2>1, <2>2
<1>7. RoutesHeld'
  <2> SUFFICES ASSUME NEW r \in Routes, NEW t \in Subjects, NEW q \in Purposes,
                      t = route'[r].subject, q = route'[r].purpose, route'[r].state = "issued"
               PROVE  Active(t)' /\ profile'[t].generation = route'[r].generation /\ Granted(t, q)'
    BY Zenon, <1>6, RoutesNext
  <2>1. Active(t) /\ profile[t].generation = route'[r].generation /\ Granted(t, q)
        /\ (~granted => <<t, q>> # <<s, p>>)
    BY Zenon, <1>6 DEF IdentityInv, RoutesHeld
  <2>2. QED
    BY Zenon, <1>3, <2>1
<1>8. QED
  BY Zenon, <1>3, <1>4, <1>5, <1>6, <1>7 DEF IdentityInv

LEMMA ProfileStep ==
  ASSUME IdentityInv, NEW s \in Subjects,
         \/ CreateProfile(s) \/ ReceiptExpires(s)
         \/ \E expected \in 1 .. MaxVersion : \E clear \in BOOLEAN : UpdatePersona(s, expected, clear)
  PROVE  IdentityInv'
<1>1. UNCHANGED <<ceremony, template, route, speaker>>
  BY Zenon DEF CreateProfile, ReceiptExpires, UpdatePersona
<1>2. CASE CreateProfile(s)
  <2>1. /\ profile[s].state = "absent" /\ profile' = [profile EXCEPT ![s] = NewProfile] /\ UNCHANGED receipts
    BY Zenon, <1>2 DEF CreateProfile
  <2>2. SameWords /\ LogType'
    BY Zenon, <2>1, SameLogs DEF IdentityInv, LogType
  <2>3. NewProfile \in Profile /\ NewProfile.state = "active" /\ NewProfile.pointers = {} /\ NewProfile.traits = 0
    BY Zenon DEF NewProfile, NoProfile, Profile
  <2>4. ProfileType' /\ profile'[s] = NewProfile /\ \A t \in Subjects : t # s => profile'[t] = profile[t]
    BY Zenon, <2>1, <2>3 DEF IdentityInv, ProfileType
  <2>5. \A p \in Purposes : ~Granted(s, p)
    BY <2>1 DEF IdentityInv, Untouched, Granted
  <2>6. Untouched' /\ PersonaOpens'
    BY Zenon, <2>2, <2>3, <2>4 DEF IdentityInv, Untouched, PersonaOpens, SameWords, Active
  <2>7. Pointed'
    <3> SUFFICES ASSUME NEW t \in Subjects, Active(t)', NEW p \in Purposes, NEW n \in Nat
                 PROVE  <<p, n>> \in profile'[t].pointers <=> Granted(t, p)' /\ n = Latest(t, p)'
      BY Zenon DEF Pointed
    <3>1. CASE t = s
      BY SMTT(20), <2>2, <2>3, <2>4, <2>5, <3>1 DEF SameWords
    <3>2. CASE t # s
      BY SMTT(20), <2>2, <2>4, <3>2 DEF IdentityInv, Pointed, Active, SameWords
    <3>3. QED
      BY Zenon, <3>1, <3>2
  <2>8. RevokedHoldsNothing'
    BY Zenon, <1>1, <2>1, <2>3, <2>4 DEF IdentityInv, RevokedHoldsNothing
  <2>9. SessionType' /\ BiometricsHeld'
    <3>1. SessionType'
      BY Zenon, <1>1 DEF IdentityInv, SessionType
    <3> SUFFICES ASSUME NEW d \in Ceremonies, NEW t \in Subjects, NEW q \in Purposes,
                        t = ceremony'[d].subject, q = ceremony'[d].modality,
                        ceremony'[d].state \in OpenStates \/ template'[d] \in {"ready", "approved", "due"}
                 PROVE  Active(t)' /\ Granted(t, q)'
      BY Zenon, <3>1, BiometricsNext
    <3>2. Active(t) /\ Granted(t, q)
      BY Zenon, <1>1 DEF IdentityInv, BiometricsHeld
    <3>3. QED
      BY Zenon, <2>1, <2>2, <2>4, <3>2 DEF Active, SameWords
  <2>10. RouteType' /\ RoutesHeld'
    <3>1. RouteType'
      BY SMTT(20), <1>1 DEF IdentityInv, RouteType
    <3> SUFFICES ASSUME NEW r \in Routes, NEW t \in Subjects, NEW q \in Purposes,
                        t = route'[r].subject, q = route'[r].purpose, route'[r].state = "issued"
                 PROVE  Active(t)' /\ profile'[t].generation = route'[r].generation /\ Granted(t, q)'
      BY SMTT(20), <3>1, RoutesNext
    <3>2. Active(t) /\ profile[t].generation = route'[r].generation /\ Granted(t, q)
      BY Zenon, <1>1 DEF IdentityInv, RoutesHeld
    <3>3. QED
      BY Zenon, <2>1, <2>2, <2>4, <3>2 DEF Active, SameWords
  <2>11. QED
    BY Zenon, <2>2, <2>4, <2>6, <2>7, <2>8, <2>9, <2>10 DEF IdentityInv
<1>3. CASE ReceiptExpires(s)
  <2>1. UNCHANGED profile /\ LogType' /\ SameWords
    BY ZenonT(40), <1>3, Expiring DEF IdentityInv, ReceiptExpires
  <2>2. Standing /\ Untouched' /\ Pointed' /\ PersonaOpens'
    BY Zenon, <2>1, ProfilesStand
  <2>3. RevokedHoldsNothing'
    BY Zenon, <1>1, <1>3, <2>1, Expiring DEF IdentityInv, RevokedHoldsNothing
  <2>4. QED
    BY Zenon, <1>1, <2>1, <2>2, <2>3, RoutesStand, CeremoniesStand DEF IdentityInv, ProfileType
<1>4. ASSUME NEW expected \in 1 .. MaxVersion, NEW clear \in BOOLEAN, UpdatePersona(s, expected, clear)
      PROVE  IdentityInv'
  <2>1. /\ UNCHANGED receipts /\ profile[s].version = expected /\ profile[s] \in Profile
        /\ profile' = [profile EXCEPT ![s] = [profile[s] EXCEPT !.traits = IF clear THEN 0 ELSE expected + 1,
                                                               !.version = profile[s].version + 1]]
    BY Zenon, <1>4 DEF UpdatePersona, IdentityInv, ProfileType
  <2>2. LogType' /\ SameWords
    BY Zenon, <2>1, SameLogs DEF IdentityInv, LogType
  <2>3. /\ profile'[s].state = profile[s].state /\ profile'[s].generation = profile[s].generation
        /\ profile'[s].pointers = profile[s].pointers
        /\ profile'[s].traits # 0 => profile'[s].traits = profile'[s].version
        /\ profile'[s] \in Profile
        /\ \A t \in Subjects : t # s => profile'[t] = profile[t]
    <3> DEFINE x == [profile[s] EXCEPT !.traits = IF clear THEN 0 ELSE expected + 1, !.version = profile[s].version + 1]
    <3>1. /\ x \in Profile /\ x.state = profile[s].state /\ x.generation = profile[s].generation
          /\ x.pointers = profile[s].pointers
          /\ x.traits # 0 => x.traits = x.version
      <4>1. profile[s].version \in Nat /\ profile[s].version = expected /\ profile[s] \in Profile
        BY Zenon, <2>1 DEF Profile
      <4>3. x = [profile[s] EXCEPT !.traits = IF clear THEN 0 ELSE expected + 1, !.version = expected + 1]
        BY Zenon, <4>1
      <4> HIDE DEF x
      <4>7. expected + 1 \in Nat /\ expected \in Nat
        BY <4>1
      <4>4. CASE clear
        <5>1. x = [profile[s] EXCEPT !.traits = 0, !.version = expected + 1]
          BY Zenon, <4>3, <4>4
        <5>2. /\ x \in Profile /\ x.state = profile[s].state /\ x.generation = profile[s].generation
              /\ x.pointers = profile[s].pointers /\ x.traits = 0
          BY Zenon, <4>1, <4>7, <5>1 DEF Profile
        <5>3. QED
          BY Zenon, <5>2
      <4>5. CASE ~clear
        <5>1. x = [profile[s] EXCEPT !.traits = expected + 1, !.version = expected + 1]
          BY Zenon, <4>3, <4>5
        <5>2. /\ x \in Profile /\ x.state = profile[s].state /\ x.generation = profile[s].generation
              /\ x.pointers = profile[s].pointers /\ x.traits = expected + 1 /\ x.version = expected + 1
          BY Zenon, <4>1, <4>7, <5>1 DEF Profile
        <5>3. QED
          BY Zenon, <5>2
      <4>6. QED
        BY Zenon, <4>4, <4>5
    <3>2. profile'[s] = x /\ \A t \in Subjects : t # s => profile'[t] = profile[t]
      BY Zenon, <2>1 DEF IdentityInv, ProfileType
    <3> HIDE DEF x
    <3>3. QED
      BY Zenon, <3>1, <3>2
  <2>4. ProfileType'
    BY Zenon, <2>1, <2>3 DEF IdentityInv, ProfileType
  <2>5. Standing /\ Untouched' /\ Pointed' /\ PersonaOpens'
    BY Zenon, <2>2, <2>3, ProfilesStand
  <2>6. RevokedHoldsNothing'
    BY <1>1, <2>1, <2>3 DEF IdentityInv, RevokedHoldsNothing
  <2>7. QED
    BY SMTT(20), <1>1, <2>2, <2>4, <2>5, <2>6, RoutesStand, CeremoniesStand DEF IdentityInv
<1>5. QED
  BY Zenon, <1>2, <1>3, <1>4

LEMMA RevokeProfileStep ==
  ASSUME IdentityInv, NEW s \in Subjects, NEW actor \in Subjects, NEW expected \in 1 .. MaxVersion,
         RevokeProfile(s, actor, expected)
  PROVE  IdentityInv'
<1>1. /\ LogType' /\ SameWords
      /\ \A p \in Purposes : \A i \in DOMAIN receipts'[s][p] : receipts'[s][p][i].expired
      /\ \A t \in Subjects : t # s => receipts'[t] = receipts[t]
  BY Zenon, Revoking DEF RevokeProfile, SubjectCascade, IdentityInv
<1>2. /\ profile[s] \in Profile /\ profile[s].state = "active"
      /\ profile' = [profile EXCEPT ![s] = [profile[s] EXCEPT !.state = "revoked", !.version = profile[s].version + 1,
                                                           !.generation = profile[s].generation + 1]]
  BY Zenon DEF RevokeProfile, RevokedRow, Active, IdentityInv, ProfileType
<1>3. ProfileType' /\ profile'[s].state = "revoked" /\ \A t \in Subjects : t # s => profile'[t] = profile[t]
  <2> DEFINE x == [profile[s] EXCEPT !.state = "revoked", !.version = profile[s].version + 1,
                                     !.generation = profile[s].generation + 1]
  <2>1. x \in Profile /\ x.state = "revoked"
    <3>1. profile[s].version + 1 \in Nat /\ profile[s].generation + 1 \in Nat
      BY <1>2 DEF Profile
    <3>2. QED
      BY Zenon, <1>2, <3>1 DEF Profile
  <2>2. profile' = [profile EXCEPT ![s] = x]
    BY Zenon, <1>2
  <2> HIDE DEF x
  <2>3. QED
    BY Zenon, <2>1, <2>2 DEF IdentityInv, ProfileType
<1>4. Untouched'
  BY Zenon, <1>1, <1>3 DEF IdentityInv, Untouched, SameWords
<1>5. PersonaOpens'
  BY SMTT(20), <1>3 DEF IdentityInv, PersonaOpens, Active
<1>6. Pointed'
  <2> SUFFICES ASSUME NEW t \in Subjects, Active(t)', NEW p \in Purposes, NEW n \in Nat
               PROVE  <<p, n>> \in profile'[t].pointers <=> Granted(t, p)' /\ n = Latest(t, p)'
    BY Zenon DEF Pointed
  <2>1. t # s /\ profile'[t] = profile[t] /\ Active(t)
    BY SMTT(20), <1>3 DEF Active
  <2>2. <<p, n>> \in profile[t].pointers <=> Granted(t, p) /\ n = Latest(t, p)
    BY Zenon, <2>1 DEF IdentityInv, Pointed
  <2>3. QED
    BY Zenon, <1>1, <2>1, <2>2 DEF SameWords
<1>7. RevokedHoldsNothing'
  <2> SUFFICES ASSUME NEW t \in Subjects, profile'[t].state = "revoked"
               PROVE  speaker' # t /\ \A q \in Purposes :
                        \A i \in DOMAIN receipts'[t][q] : receipts'[t][q][i].expired
    BY Zenon DEF RevokedHoldsNothing
  <2>1. speaker' = SpeakerInvalidated(s)
    BY Zenon DEF RevokeProfile, SubjectCascade
  <2>2. CASE t = s
    BY Zenon, <1>1, <2>1, <2>2, PurposesApart DEF SpeakerInvalidated
  <2>3. CASE t # s
    BY Zenon, <1>1, <1>3, <2>1, <2>3, PurposesApart DEF SpeakerInvalidated, IdentityInv, RevokedHoldsNothing
  <2>4. QED
    BY Zenon, <2>2, <2>3
<1>8. ASSUME NEW d \in Ceremonies
      PROVE  /\ ceremony'[d] \in Session \cup {NoCeremony}
             /\ ceremony[d] \in Session => ceremony'[d] \in Session
             /\ ceremony'[d].state \in OpenStates => ceremony'[d] = ceremony[d] /\ ceremony[d].subject # s
             /\ ceremony[d] \in Session =>
                  ceremony'[d].subject = ceremony[d].subject /\ ceremony'[d].modality = ceremony[d].modality
  <2>1. ceremony[d] \in Session \cup {NoCeremony}
    BY Zenon DEF IdentityInv, SessionType
  <2>2. ceremony'[d] = IF /\ ceremony[d].state \in OpenStates
                          /\ ceremony[d].subject = s /\ ceremony[d].modality \in Modalities
                       THEN [ceremony[d] EXCEPT !.state = "cancelled"] ELSE ceremony[d]
    BY Zenon DEF RevokeProfile, SubjectCascade, SubjectEnrollmentsCancelled, CeremoniesCancelled
  <2>3. QED
    BY <2>1, <2>2 DEF Session, NoCeremony, OpenStates
<1>9. ASSUME NEW d \in Ceremonies
      PROVE  /\ template'[d] \in {"none", "ready", "approved", "due", "revoked"}
             /\ template'[d] # "none" => template[d] # "none"
             /\ template'[d] \in {"ready", "approved", "due"} => template'[d] = template[d] /\ ceremony[d].subject # s
  <2>1. template'[d] = IF template[d] # "none" /\ ceremony[d].subject = s /\ ceremony[d].modality \in Modalities
                       THEN "revoked" ELSE template[d]
    BY Zenon DEF RevokeProfile, SubjectCascade, SubjectTemplatesRevoked, TemplatesRevoked
  <2>2. template[d] # "none" => ceremony[d].modality \in Modalities
    BY Zenon DEF IdentityInv, SessionType, Session
  <2>3. template[d] \in {"none", "ready", "approved", "due", "revoked"}
    BY Zenon DEF IdentityInv, SessionType
  <2>4. QED
    BY Zenon, <2>1, <2>2, <2>3
<1>10. SessionType'
  <2>1. ceremony' = [d \in Ceremonies |-> ceremony'[d]] /\ template' = [d \in Ceremonies |-> template'[d]]
    BY Zenon DEF RevokeProfile, SubjectCascade, SubjectEnrollmentsCancelled, CeremoniesCancelled,
           SubjectTemplatesRevoked, TemplatesRevoked
  <2>2. ceremony' \in [Ceremonies -> Session \cup {NoCeremony}]
    BY Zenon, <1>8, <2>1
  <2>3. template' \in [Ceremonies -> {"none", "ready", "approved", "due", "revoked"}]
    BY Zenon, <1>9, <2>1
  <2>4. QED
    BY Zenon, <1>8, <1>9, <2>2, <2>3 DEF IdentityInv, SessionType
<1>11. BiometricsHeld'
  <2> SUFFICES ASSUME NEW d \in Ceremonies, NEW t \in Subjects, NEW q \in Purposes,
                      t = ceremony'[d].subject, q = ceremony'[d].modality,
                      ceremony'[d].state \in OpenStates \/ template'[d] \in {"ready", "approved", "due"}
               PROVE  Active(t)' /\ Granted(t, q)'
    BY Zenon, <1>10, BiometricsNext
  <2>1. /\ ceremony[d].state \in OpenStates \/ template[d] \in {"ready", "approved", "due"}
        /\ ceremony[d].subject = t /\ ceremony[d].modality = q /\ t # s
    BY Zenon, <1>8, <1>9 DEF IdentityInv, SessionType
  <2>2. Active(t) /\ Granted(t, q)
    BY Zenon, <2>1 DEF IdentityInv, BiometricsHeld
  <2>3. QED
    BY Zenon, <1>1, <1>3, <2>1, <2>2 DEF Active, SameWords
<1>12. ASSUME NEW r \in Routes
       PROVE  /\ route'[r] \in RouteRow \cup {NoRoute}
              /\ route'[r].state = "issued" => route'[r] = route[r] /\ route[r].subject # s
  <2>1. route[r] \in RouteRow \cup {NoRoute}
    BY Zenon DEF IdentityInv, RouteType
  <2>2. route'[r] = IF /\ route[r].state = "issued"
                       /\ route[r].subject = s /\ route[r].purpose \in CloudPurposes
                    THEN [route[r] EXCEPT !.state = "deleted"] ELSE route[r]
    BY Zenon DEF RevokeProfile, SubjectCascade, SubjectRoutesInvalidated, RoutesInvalidated
  <2>3. QED
    BY <2>1, <2>2 DEF RouteRow, NoRoute
<1>13. RouteType'
  BY Zenon, <1>12 DEF RouteType, RevokeProfile, SubjectCascade, SubjectRoutesInvalidated, RoutesInvalidated
<1>14. RoutesHeld'
  <2> SUFFICES ASSUME NEW r \in Routes, NEW t \in Subjects, NEW q \in Purposes,
                      t = route'[r].subject, q = route'[r].purpose, route'[r].state = "issued"
               PROVE  Active(t)' /\ profile'[t].generation = route'[r].generation /\ Granted(t, q)'
    BY Zenon, <1>13, RoutesNext
  <2>1. Active(t) /\ profile[t].generation = route'[r].generation /\ Granted(t, q) /\ t # s
    BY Zenon, <1>12 DEF IdentityInv, RoutesHeld
  <2>2. QED
    BY Zenon, <1>1, <1>3, <2>1 DEF Active, SameWords
<1>15. QED
  BY Zenon, <1>1, <1>3, <1>4, <1>5, <1>6, <1>7, <1>10, <1>11, <1>13, <1>14 DEF IdentityInv

LEMMA IdentityInvStep == IdentityInv /\ [IdentityNext]_identityVars => IdentityInv'
<1> SUFFICES ASSUME IdentityInv, [IdentityNext]_identityVars PROVE IdentityInv'
  BY Zenon
<1>1. ASSUME UNCHANGED <<profile, receipts, ceremony, template, route>>,
             UNCHANGED speaker \/ \E s \in Subjects \cup {Nobody} : IdentifySpeaker(s)
      PROVE  IdentityInv'
  <2>1. Standing
    BY Zenon, <1>1, SameLogs DEF Standing, Active
  <2>2. Untouched' /\ Pointed' /\ PersonaOpens'
    BY Zenon, <1>1, SameLogs, ProfilesStand
  <2>3. RevokedHoldsNothing'
    BY Zenon, <1>1, PurposesApart DEF IdentifySpeaker, Active, IdentityInv, RevokedHoldsNothing
  <2>4. QED
    BY Zenon, <1>1, <2>1, <2>2, <2>3, RoutesStand, CeremoniesStand DEF IdentityInv, LogType, ProfileType
<1>2. CASE UNCHANGED subjectVars
  BY Zenon, <1>1, <1>2 DEF subjectVars
<1>3. CASE \E s \in Subjects \cup {Nobody} : IdentifySpeaker(s)
  BY Zenon, <1>1, <1>3 DEF IdentifySpeaker
<1>4. CASE SubjectNext
  BY Zenon, <1>3, <1>4, ProfileStep, RevokeProfileStep, ConsentStep, EnrollmentStep, ExpireDueStep, RouteStep DEF SubjectNext
<1>5. QED
  BY Zenon, <1>2, <1>4 DEF IdentityNext, identityVars, subjectVars

-----------------------------------------------------------------------------
(* Guests.  A withdrawal repeats the challenge of the grant it follows, and a challenge is answered *)
(* with a yes once: the withdrawn grant is never again the latest receipt of its purpose.           *)

Asked == [state : {"shown", "open", "accepted", "denied"}, purpose : CloudPurposes, issued : Nat, expires : Nat]
Answer == [challenge : Challenges, purpose : CloudPurposes, granted : BOOLEAN, at : Nat, expires : Nat]

GuestType ==
    /\ instant \in Nat
    /\ guestSession \in [open : BOOLEAN, active : Nat]
    /\ challenge \in [Challenges -> Asked \cup {NoChallenge}]
    /\ guestReceipts \subseteq Answer

(* Every grant was a yes to its challenge, in time. *)
GrantsAnswer ==
    \A g \in guestReceipts : g.granted =>
        /\ challenge[g.challenge].state = "accepted" /\ challenge[g.challenge].purpose = g.purpose
        /\ challenge[g.challenge].issued <= g.at /\ g.at < challenge[g.challenge].expires

OneGrantEach ==
    \A g, h \in guestReceipts : g.granted /\ h.granted /\ g.challenge = h.challenge => g = h

WithdrawalsFollow ==
    \A w \in guestReceipts : ~w.granted =>
        \E g \in guestReceipts : g.granted /\ g.challenge = w.challenge /\ g.purpose = w.purpose /\ g.at < w.at

GuestInv == GuestType /\ GrantsAnswer /\ OneGrantEach /\ WithdrawalsFollow

(* A challenge that is not answered with a yes by this step keeps every grant as it was. *)
LEMMA ChallengeMoves ==
  ASSUME GuestInv, NEW c \in Challenges, NEW a \in Asked,
         challenge[c].state # "accepted",
         challenge' = [challenge EXCEPT ![c] = a], UNCHANGED <<instant, guestSession, guestReceipts>>
  PROVE  GuestInv'
<1>1. GuestType'
  BY Zenon DEF GuestInv, GuestType
<1>2. \A g \in guestReceipts : g.granted => g.challenge # c /\ challenge'[g.challenge] = challenge[g.challenge]
  BY Zenon DEF GuestInv, GuestType, GrantsAnswer, Answer
<1>3. GrantsAnswer'
  BY Zenon, <1>2 DEF GuestInv, GrantsAnswer
<1>4. OneGrantEach' /\ WithdrawalsFollow'
  BY Zenon DEF GuestInv, OneGrantEach, WithdrawalsFollow
<1>5. QED
  BY Zenon, <1>1, <1>3, <1>4 DEF GuestInv

LEMMA AcceptStep ==
  ASSUME GuestInv, NEW c \in Challenges, NEW t \in Nat, AcceptChallenge(c, t)
  PROVE  GuestInv'
<1> DEFINE a == challenge[c]
           new == [challenge |-> c, purpose |-> a.purpose, granted |-> TRUE, at |-> t, expires |-> SessionEnd]
<1>1. /\ a \in Asked /\ a.state = "open" /\ a.issued <= t /\ t < a.expires
      /\ UNCHANGED <<instant, guestSession>> /\ guestReceipts' = guestReceipts \cup {new}
      /\ challenge' = [challenge EXCEPT ![c] = [a EXCEPT !.state = "accepted"]]
  BY DEF AcceptChallenge, IsOpen, Answered, AppendGuestReceipt, GuestInv, GuestType, NoChallenge
<1>2. SessionEnd \in Nat
  BY IdentityAssumption DEF SessionEnd, GuestInv, GuestType
<1>3. new \in Answer
  BY Zenon, <1>1, <1>2 DEF Answer, Asked
<1>4. /\ challenge'[c] \in Asked /\ challenge'[c].state = "accepted" /\ challenge'[c].purpose = a.purpose
      /\ challenge'[c].issued = a.issued /\ challenge'[c].expires = a.expires
      /\ \A d \in Challenges : d # c => challenge'[d] = challenge[d]
      /\ challenge' \in [Challenges -> Asked \cup {NoChallenge}]
  BY Zenon, <1>1 DEF Asked, GuestInv, GuestType
<1>5. \A g \in guestReceipts : g.granted => g.challenge \in Challenges /\ g.challenge # c
  BY Zenon, <1>1 DEF GuestInv, GuestType, GrantsAnswer, Answer
<1>6. /\ new.challenge = c /\ new.purpose = a.purpose /\ new.granted = TRUE /\ new.at = t
  BY Zenon
<1> HIDE DEF new, a
<1>7. GuestType'
  BY Zenon, <1>1, <1>3, <1>4 DEF GuestInv, GuestType
<1>8. GrantsAnswer'
  <2> SUFFICES ASSUME NEW g \in guestReceipts', g.granted
               PROVE  /\ challenge'[g.challenge].state = "accepted" /\ challenge'[g.challenge].purpose = g.purpose
                      /\ challenge'[g.challenge].issued <= g.at /\ g.at < challenge'[g.challenge].expires
    BY Zenon DEF GrantsAnswer
  <2>1. CASE g = new
    BY Zenon, <1>1, <1>4, <1>6, <2>1
  <2>2. CASE g \in guestReceipts
    BY Zenon, <1>4, <1>5, <2>2 DEF GuestInv, GrantsAnswer
  <2>3. QED
    BY Zenon, <1>1, <2>1, <2>2
<1>9. OneGrantEach'
  BY Zenon, <1>1, <1>5, <1>6 DEF GuestInv, OneGrantEach
<1>10. WithdrawalsFollow'
  BY Zenon, <1>1, <1>6 DEF GuestInv, WithdrawalsFollow
<1>11. QED
  BY Zenon, <1>7, <1>8, <1>9, <1>10 DEF GuestInv

LEMMA WithdrawStep ==
  ASSUME GuestInv, NEW r \in guestReceipts, NEW t \in Nat, RevokeGuestConsent(r, t)
  PROVE  GuestInv'
<1> DEFINE new == [r EXCEPT !.granted = FALSE, !.at = t]
<1>1. r \in Answer
  BY Zenon DEF GuestInv, GuestType
<1>2. /\ new \in Answer /\ new.granted = FALSE /\ new.at = t
      /\ new.challenge = r.challenge /\ new.purpose = r.purpose
  BY Zenon, <1>1 DEF Answer
<1>3. /\ r.granted /\ r.at <= t /\ UNCHANGED <<instant, guestSession, challenge>>
      /\ guestReceipts' = guestReceipts \cup {new}
      /\ \A q \in guestReceipts : q.purpose = new.purpose => q.at # new.at
  BY Zenon DEF RevokeGuestConsent, Withdrawable, AppendGuestReceipt
<1> HIDE DEF new
<1>4. r.at < t
  <2>1. r.at # t /\ r.at \in Nat
    BY Zenon, <1>1, <1>2, <1>3 DEF Answer
  <2>2. QED
    BY <1>3, <2>1
<1>5. GuestType'
  BY Zenon, <1>2, <1>3 DEF GuestInv, GuestType
<1>6. GrantsAnswer' /\ OneGrantEach'
  BY Zenon, <1>2, <1>3 DEF GuestInv, GrantsAnswer, OneGrantEach
<1>7. WithdrawalsFollow'
  <2> SUFFICES ASSUME NEW w \in guestReceipts', ~w.granted
               PROVE  \E g \in guestReceipts' : g.granted /\ g.challenge = w.challenge /\ g.purpose = w.purpose /\ g.at < w.at
    BY Zenon DEF WithdrawalsFollow
  <2>1. CASE w = new
    BY Zenon, <1>2, <1>3, <1>4, <2>1
  <2>2. CASE w \in guestReceipts
    BY Zenon, <1>3, <2>2 DEF GuestInv, WithdrawalsFollow
  <2>3. QED
    BY Zenon, <1>3, <2>1, <2>2
<1>8. QED
  BY Zenon, <1>5, <1>6, <1>7 DEF GuestInv

LEMMA GuestInvStep == GuestInv /\ [IdentityNext]_identityVars => GuestInv'
<1> SUFFICES ASSUME GuestInv, [IdentityNext]_identityVars PROVE GuestInv'
  BY Zenon
<1>1. CASE UNCHANGED guestVars
  BY Zenon, <1>1 DEF guestVars, GuestInv, GuestType, GrantsAnswer, OneGrantEach, WithdrawalsFollow
<1>2. \A c \in Challenges : challenge[c].state # "none" => challenge[c] \in Asked
  BY DEF GuestInv, GuestType, NoChallenge
<1>3. instant \in Nat /\ \A t \in 0 .. instant : t \in Nat
  BY DEF GuestInv, GuestType
<1>4. ASSUME NEW c \in Challenges, NEW p \in CloudPurposes, ShowDisclosure(c, p) PROVE GuestInv'
  <2> DEFINE a == [state |-> "shown", purpose |-> p, issued |-> instant, expires |-> instant]
  <2>1. a \in Asked
    BY Zenon, <1>3 DEF Asked
  <2>2. QED
    BY Zenon, <1>4, <2>1, ChallengeMoves DEF ShowDisclosure
<1>5. ASSUME NEW c \in Challenges, NEW t \in 0 .. instant, IssueChallenge(c, t) PROVE GuestInv'
  <2> DEFINE a == [state |-> "open", purpose |-> challenge[c].purpose, issued |-> t,
                   expires |-> IF SessionEnd < t + AnswerTime THEN SessionEnd ELSE t + AnswerTime]
  <2>1. SessionEnd \in Nat /\ AnswerTime \in Nat /\ t \in Nat
    BY <1>3, IdentityAssumption DEF SessionEnd, GuestInv, GuestType
  <2>2. challenge[c].state = "shown" /\ challenge[c] \in Asked
    BY Zenon, <1>2, <1>5 DEF IssueChallenge, WasShown
  <2>3. a \in Asked
    BY <2>1, <2>2 DEF Asked
  <2>4. challenge' = [challenge EXCEPT ![c] = a] /\ UNCHANGED <<instant, guestSession, guestReceipts>>
    BY Zenon, <1>5 DEF IssueChallenge
  <2>5. QED
    BY Zenon, <2>2, <2>3, <2>4, ChallengeMoves
<1>6. ASSUME NEW c \in Challenges, NEW t \in 0 .. instant, DeclineChallenge(c, t) PROVE GuestInv'
  <2> DEFINE a == [challenge[c] EXCEPT !.state = "denied"]
  <2>1. challenge[c].state = "open" /\ challenge[c] \in Asked
    BY Zenon, <1>2, <1>6 DEF DeclineChallenge, IsOpen
  <2>2. a \in Asked
    BY Zenon, <2>1 DEF Asked
  <2>3. challenge' = [challenge EXCEPT ![c] = a] /\ UNCHANGED <<instant, guestSession, guestReceipts>>
    BY Zenon, <1>6 DEF DeclineChallenge, Answered
  <2>4. QED
    BY Zenon, <2>1, <2>2, <2>3, ChallengeMoves
<1>7. CASE UseSession \/ AbandonSession \/ TimePasses
  <2>1. UNCHANGED <<challenge, guestReceipts>> /\ instant' \in Nat /\ guestSession' \in [open : BOOLEAN, active : Nat]
    <3>1. CASE UseSession
      BY Zenon, <1>3, <3>1 DEF UseSession, GuestInv, GuestType
    <3>2. CASE AbandonSession
      BY Zenon, <1>3, <3>2 DEF AbandonSession
    <3>3. CASE TimePasses
      BY <1>3, <3>3 DEF TimePasses, GuestInv, GuestType
    <3>4. QED
      BY Zenon, <1>7, <3>1, <3>2, <3>3, Zenon
  <2>2. QED
    BY Zenon, <2>1 DEF GuestInv, GuestType, GrantsAnswer, OneGrantEach, WithdrawalsFollow
<1>8. CASE GuestNext
  BY Zenon, <1>3, <1>4, <1>5, <1>6, <1>7, <1>8, AcceptStep, WithdrawStep DEF GuestNext
<1>9. QED
  BY Zenon, <1>1, <1>8 DEF IdentityNext, identityVars, guestVars

LEMMA GuestInvAsks == GuestInv => GuestsAreAsked
<1> SUFFICES ASSUME GuestInv, NEW r \in guestReceipts, NEW t \in 0 .. instant, GuestIsCurrent(r, t)
             PROVE  /\ challenge[r.challenge].state = "accepted" /\ challenge[r.challenge].purpose = r.purpose
                    /\ challenge[r.challenge].issued <= r.at /\ r.at < challenge[r.challenge].expires
                    /\ \A w \in guestReceipts : w.challenge = r.challenge => w.granted
  BY Zenon DEF GuestsAreAsked
<1>1. r.granted /\ r.at \in Nat /\ \A q \in guestReceipts : q.purpose = r.purpose => q.at <= r.at
  BY Zenon DEF GuestIsCurrent, Withdrawable, IsLatest, GuestInv, GuestType, Answer
<1>2. ASSUME NEW w \in guestReceipts, w.challenge = r.challenge, ~w.granted PROVE FALSE
  <2>1. PICK g \in guestReceipts : g.granted /\ g.challenge = w.challenge /\ g.purpose = w.purpose /\ g.at < w.at
    BY Zenon, <1>2 DEF GuestInv, WithdrawalsFollow
  <2>2. g = r
    BY Zenon, <1>1, <1>2, <2>1 DEF GuestInv, OneGrantEach
  <2>3. w.at <= r.at /\ w.at \in Nat
    BY Zenon, <1>1, <2>1, <2>2 DEF GuestInv, GuestType, Answer
  <2>4. QED
    BY <1>1, <2>1, <2>2, <2>3
<1>3. QED
  BY Zenon, <1>1, <1>2 DEF GuestInv, GrantsAnswer

(* Whatever is kept or allowed in a subject's or a guest's name rests on the consents and the profile
   as they are now, for any household, any purposes, any number of receipts, ceremonies, routes and
   guest challenges, and any lifetimes of a guest session and of a challenge. *)
THEOREM ConsentedAlways == IdentitySpec => []AuthorityIsConsented
<1>0. IdentityInit => GuestInv
  <2> SUFFICES ASSUME IdentityInit PROVE GuestInv
    BY Zenon
  <2>1. /\ instant = 0 /\ guestSession = [open |-> TRUE, active |-> 0]
        /\ challenge = [c \in Challenges |-> NoChallenge] /\ guestReceipts = {}
    BY Zenon DEF IdentityInit
  <2>2. GuestType
    BY Zenon, <2>1 DEF GuestType
  <2>3. GrantsAnswer /\ OneGrantEach /\ WithdrawalsFollow
    BY Zenon, <2>1 DEF GrantsAnswer, OneGrantEach, WithdrawalsFollow
  <2>4. QED
    BY Zenon, <2>2, <2>3 DEF GuestInv
<1>1. IdentityInit => IdentityInv
  <2> SUFFICES ASSUME IdentityInit PROVE IdentityInv
    BY Zenon
  <2>1. \A s \in Subjects, p \in Purposes : receipts[s][p] = <<>> /\ Latest(s, p) = 0 /\ ~Granted(s, p)
    BY DEF IdentityInit, Latest, Granted
  <2>2. NewProfile \in Profile /\ NoProfile \in Profile /\ NewProfile.pointers = {} /\ NoProfile.pointers = {}
        /\ NewProfile.traits = 0 /\ NoProfile.traits = 0 /\ NewProfile.state = "active" /\ NoProfile.state = "absent"
    BY Zenon DEF NewProfile, NoProfile, Profile
  <2>3. \A s \in Subjects : profile[s] \in {NewProfile, NoProfile}
    BY Zenon DEF IdentityInit
  <2>4. LogType /\ ProfileType /\ SessionType /\ RouteType
    BY <2>2 DEF IdentityInit, LogType, ProfileType, SessionType, RouteType
  <2>5. Untouched /\ Pointed /\ RevokedHoldsNothing /\ PersonaOpens
    BY Zenon, <2>1, <2>2, <2>3 DEF Untouched, Pointed, RevokedHoldsNothing, PersonaOpens, Active
  <2>6. BiometricsHeld /\ RoutesHeld
    BY Zenon DEF IdentityInit, BiometricsHeld, RoutesHeld, NoCeremony, NoRoute, OpenStates
  <2>7. QED
    BY Zenon, <2>4, <2>5, <2>6 DEF IdentityInv
<1>2. ASSUME IdentityInv, GuestInv PROVE AuthorityIsConsented
  <2>1. PointersAreLatestGrants
    <3> SUFFICES ASSUME NEW s \in Subjects, Active(s)
                 PROVE  profile[s].pointers =
                          {<<p, Latest(s, p)>> : p \in {q \in Purposes :
                             Latest(s, q) > 0 /\ receipts[s][q][Latest(s, q)].granted}}
      BY Zenon DEF PointersAreLatestGrants
    <3>1. profile[s].pointers \subseteq Purposes \X Nat
      BY Zenon, <1>2 DEF IdentityInv, ProfileType, Profile
    <3>2. \A p \in Purposes, n \in Nat : <<p, n>> \in profile[s].pointers <=> Granted(s, p) /\ n = Latest(s, p)
      BY Zenon, <1>2 DEF IdentityInv, Pointed
    <3>3. \A p \in Purposes : Latest(s, p) \in Nat
      BY SMTT(20), <1>2 DEF IdentityInv, LogType, Latest
    <3>4. QED
      BY <3>1, <3>2, <3>3 DEF Granted
  <2>2. BiometricsAreConsented /\ UnusedRoutesAreConsented
    BY Zenon, <1>2 DEF IdentityInv, BiometricsHeld, RoutesHeld, Granted, BiometricsAreConsented, UnusedRoutesAreConsented
  <2>3. QED
    BY Zenon, <1>2, <2>1, <2>2, GuestInvAsks DEF IdentityInv, AuthorityIsConsented
<1>3. QED
  BY <1>0, <1>1, <1>2, IdentityInvStep, GuestInvStep, PTL DEF IdentitySpec

-----------------------------------------------------------------------------
(***************************************************************************)
(* CoreLifecycle, for any retry limit and any number of calls. Start and   *)
(* stop keep out of each other's way only by where they wait: what each    *)
(* place of one says about the other is the first half of the invariant.   *)
(* The second half ties readiness to the request to stop, which is never   *)
(* taken back, and the server to the calls that owe its closing.           *)
(***************************************************************************)

Draining == {"drain", "media", "close"}
StartPlaces == {"off", "bclean"} \cup Working \cup Cleaning
StopPlaces == {"off", "request", "observe"} \cup Cleaning

LifeTypes ==
    /\ at \in [Caller -> StartPlaces \cup StopPlaces]
    /\ at["start"] \in StartPlaces /\ at["stop"] \in StopPlaces
    /\ err \in [Caller -> BOOLEAN] /\ ops \in Nat
    /\ server \in {"closed", "open", "closing"}

\* Where the two calls can be at the same time. A stop that went on without a start it
\* could not end has an error, and so never reaches the supervisor.
Places ==
    /\ at["stop"] = "budget" => at["start"] = "off"
    /\ at["stop"] \in Draining => transport /\ (err["stop"] \/ at["start"] = "off")
    /\ at["start"] \in Draining \cup {"server", "auth"} => transport
    /\ at["start"] \in Working => at["stop"] \in {"off", "request"} \/ cancelled

\* What readiness rests on.
Readiness ==
    /\ ready => worker = "running" /\ at["start"] = "off" /\ (transport => started)
    /\ recovered /\ (ready \/ at["start"] = "worker") => ~stopSet
    /\ at["stop"] = "budget" \/ (~transport /\ at["stop"] # "off") => stopSet
    /\ at["stop"] \in {"media", "close"} /\ recovered /\ ready => draining

\* Who closes the server.
Servers ==
    /\ current => server # "closed"
    /\ \A c \in Caller : at[c] = "budget" => server = "closed"
    /\ server # "closed" => transport
    /\ ~lease /\ server # "closed" => pending \/ at["start"] # "off" \/ at["stop"] # "off"

LifeInv == LifeTypes /\ LeaseOutlivesWork /\ Places /\ Readiness /\ Servers

LEMMA LifeInit == Init => LifeInv
BY DEF Init, LifeInv, LifeTypes, LeaseOutlivesWork, Places, Readiness, Servers, Acquire, Caller,
       StartPlaces, StopPlaces, Working, Recovering, Cleaning, Draining

\* A step of one call leaves the other where it is.
LEMMA OneGoes ==
  ASSUME LifeTypes, NEW c \in Caller, NEW there, GoTo(c, there)
  PROVE  /\ at'[c] = there /\ \A d \in Caller \ {c} : at'[d] = at[d]
         /\ at' \in [Caller -> (StartPlaces \cup StopPlaces) \cup {there}]
BY Zenon DEF LifeTypes, GoTo

\* A start that fails leaves for one of its two cleanups.
LEMMA FailKeeps ==
  ASSUME LifeInv, NEW why, FailStart(why),
         UNCHANGED <<err, transport, started, pending, current, draining>>,
         server' = server \/ (at["start"] = "server" /\ server' = "closing"),
         ops' \in Nat
  PROVE  LifeInv'
<1>1. at["start"] \in Working /\ at["start"] # "off" /\ at["start"] # "budget"
  BY Zenon DEF FailStart, Working, Recovering
<1>2. ~ready /\ lease
  BY Zenon, <1>1 DEF LifeInv, Readiness, LeaseOutlivesWork
<1>3. lease' = lease /\ worker' = worker /\ ~ready' /\ (stopSet => stopSet')
  <2>1. CASE UNCHANGED budgetVars
    <3>1. UNCHANGED <<lease, stopSet, ready, worker>>
      BY Zenon, <2>1 DEF budgetVars
    <3> QED
      BY Zenon, <1>2, <3>1
  <2>2. CASE Prepare /\ UNCHANGED <<lease, worker>>
    BY Zenon, <2>2 DEF Prepare
  <2> QED
    BY Zenon, <2>1, <2>2 DEF FailStart
<1>4. /\ at' \in [Caller -> StartPlaces \cup StopPlaces]
      /\ at'["start"] \in {"drain", "bclean"} /\ at'["stop"] = at["stop"]
      /\ at'["start"] = "drain" => at["start"] \in {"server", "auth"}
  <2>1. CASE at["start"] \in {"server", "auth"} /\ GoTo("start", "drain")
    BY Zenon, <2>1, OneGoes DEF LifeInv, Caller, StartPlaces, Cleaning
  <2>2. CASE GoTo("start", "bclean")
    BY <2>2, OneGoes DEF LifeInv, Caller, StartPlaces, Cleaning
  <2> QED
    BY Zenon, <2>1, <2>2 DEF FailStart
<1>5. LifeTypes'
  BY Zenon, <1>4 DEF LifeInv, LifeTypes, StartPlaces, Cleaning
<1>6. LeaseOutlivesWork'
  BY Zenon, <1>2, <1>3 DEF LeaseOutlivesWork
<1>7. Places'
  BY Zenon, <1>1, <1>4 DEF LifeInv, Places, Draining, Working, Recovering
<1>8. Readiness'
  BY Zenon, <1>3, <1>4 DEF LifeInv, Readiness
<1>9. Servers'
  <2>1. (current => server # "closed")' /\ (server # "closed" => transport)'
    BY Zenon DEF LifeInv, Servers, Places
  <2>2. at'["start"] # "budget" /\ at'["stop"] # "budget"
    BY Zenon, <1>1, <1>4 DEF LifeInv, Places
  <2> QED
    BY Zenon, <1>2, <1>3, <2>1, <2>2 DEF Servers, Caller
<1> QED
  BY Zenon, <1>5, <1>6, <1>7, <1>8, <1>9 DEF LifeInv

\* The steps of start().
LEMMA StartKeeps == ASSUME LifeInv, StartNext PROVE LifeInv'
<1> USE DEF LifeInv
<1>1. CASE StartCall
  <2>1. PICK there \in {"server", "drain", "safety", "bclean"} :
             /\ GoTo("start", there) /\ (there \in {"server", "drain"} <=> transport)
             /\ (there \in {"server", "safety"} => lease)
    BY Zenon, <1>1 DEF StartCall
  <2>2. /\ at'["start"] = there /\ at["start"] = "off" /\ at["stop"] = "off" /\ at'["stop"] = "off"
        /\ at' \in [Caller -> StartPlaces \cup StopPlaces]
    BY Zenon, <1>1, <2>1, OneGoes DEF StartCall, Caller, StartPlaces, Working, Recovering, Cleaning
  <2>3. ~ready
    BY Zenon, <1>1 DEF StartCall, Readiness
  <2>4. lease' = lease /\ worker' = worker /\ ~ready'
    BY <1>1, <2>3 DEF StartCall, Prepare, budgetVars
  <2>5. /\ UNCHANGED <<transport, ops, server, pending, started>>
        /\ current' = current \/ ~current'
        /\ err' = [err EXCEPT !["start"] = FALSE]
    BY Zenon, <1>1 DEF StartCall
  <2>6. LifeTypes'
    BY Zenon, <2>2, <2>5 DEF LifeTypes, StartPlaces, StopPlaces, Working, Recovering, Cleaning, Caller
  <2>7. LeaseOutlivesWork' /\ Places'
    BY Zenon, <2>1, <2>2, <2>4, <2>5 DEF LeaseOutlivesWork, Places, Draining, Working, Recovering
  <2>8. Readiness'
    BY Zenon, <2>2, <2>4 DEF Readiness
  <2>9. Servers'
    BY <2>2, <2>5 DEF Servers, Caller
  <2> QED
    BY Zenon, <2>6, <2>7, <2>8, <2>9
<1>2. CASE ServerStarts
  <2>1. CASE FailStart("error") /\ server' \in (IF server = "closed" THEN {"closed", "closing"} ELSE {server})
    BY Zenon, <1>2, <2>1, FailKeeps DEF ServerStarts, lifeVars, recoveryVars, LifeTypes
  <2>2. CASE server' = "open" /\ GoTo("start", "auth") /\ UNCHANGED <<cause, cancelled, budgetVars>>
    <3>1. /\ at["start"] = "server" /\ at'["start"] = "auth" /\ at'["stop"] = at["stop"]
          /\ at' \in [Caller -> StartPlaces \cup StopPlaces]
      BY Zenon, <1>2, <2>2, OneGoes DEF ServerStarts, Caller, StartPlaces, Working
    <3>2. UNCHANGED <<err, transport, started, pending, current, draining, ops, cancelled, lease,
                      stopSet, recovered, ready, worker>>
      BY Zenon, <1>2, <2>2 DEF ServerStarts, lifeVars, recoveryVars, budgetVars
    <3>3. LifeTypes' /\ LeaseOutlivesWork' /\ Places'
      BY <2>2, <3>1, <3>2
         DEF LifeTypes, LeaseOutlivesWork, Places, Draining, StartPlaces, Working, Recovering
    <3>4. Readiness'
      BY Zenon, <3>1, <3>2 DEF Readiness
    <3>5. Servers'
      BY Zenon, <2>2, <3>1, <3>2 DEF Servers, Caller, Places
    <3> QED
      BY Zenon, <3>3, <3>4, <3>5
  <2> QED
    BY Zenon, <1>2, <2>1, <2>2 DEF ServerStarts
<1>3. CASE Authenticated \/ RecoveryAdvances
  <2>1. PICK there \in {"safety", "attempts", "sessions", "expired"} : GoTo("start", there)
    BY Zenon, <1>3 DEF Authenticated, RecoveryAdvances
  <2>2. /\ at["start"] \in Working /\ at["start"] # "off" /\ ~cancelled
        /\ at'["start"] = there /\ at'["stop"] = at["stop"]
        /\ at' \in [Caller -> StartPlaces \cup StopPlaces]
    BY Zenon, <1>3, <2>1, OneGoes
       DEF Authenticated, RecoveryAdvances, Caller, StartPlaces, Working, Recovering
  <2>3. UNCHANGED <<err, transport, started, pending, server, current, draining, ops, cancelled,
                    lease, stopSet, ready, worker>>
    BY Zenon, <1>3 DEF Authenticated, RecoveryAdvances, lifeVars, recoveryVars, channelVars
  <2>4. ~ready
    BY Zenon, <2>2 DEF Readiness
  <2>5. LifeTypes' /\ LeaseOutlivesWork' /\ Places'
    BY Zenon, <2>2, <2>3
       DEF LifeTypes, LeaseOutlivesWork, Places, Draining, StartPlaces, Working, Recovering
  <2>6. Readiness'
    BY Zenon, <2>2, <2>3, <2>4 DEF Readiness
  <2>7. Servers'
    BY Zenon, <2>2, <2>3 DEF Servers, Caller
  <2> QED
    BY Zenon, <2>5, <2>6, <2>7
<1>4. CASE SafetyAttemptFails
  <2>1. ops' \in Nat
    BY <1>4 DEF SafetyAttemptFails, LifeTypes
  <2>2. CASE FailStart("error")
    BY Zenon, <1>4, <2>1, <2>2, FailKeeps DEF SafetyAttemptFails, lifeVars, channelVars
  <2>3. CASE UNCHANGED <<at, cause, cancelled, budgetVars>>
    <3>1. UNCHANGED <<at, err, transport, started, pending, server, current, draining, cancelled,
                      lease, stopSet, recovered, ready, worker>>
      BY Zenon, <1>4, <2>3 DEF SafetyAttemptFails, lifeVars, channelVars, budgetVars
    <3>2. lease
      BY Zenon, <1>4 DEF SafetyAttemptFails, LeaseOutlivesWork, Working, Recovering
    <3>3. LifeTypes' /\ LeaseOutlivesWork'
      BY Zenon, <2>1, <3>1, <3>2 DEF LifeTypes, LeaseOutlivesWork
    <3>4. Places' /\ Readiness' /\ Servers'
      BY Zenon, <3>1 DEF Places, Readiness, Servers
    <3> QED
      BY Zenon, <3>3, <3>4
  <2> QED
    BY Zenon, <1>4, <2>2, <2>3 DEF SafetyAttemptFails
<1>5. CASE WorkerStarts
  <2>1. CASE FailStart("error")
    BY Zenon, <1>5, <2>1, FailKeeps DEF WorkerStarts, lifeVars, channelVars, recoveryVars, LifeTypes
  <2>2. CASE /\ ~stopSet /\ worker' = "running" /\ GoTo("start", "worker")
             /\ UNCHANGED <<cause, cancelled, lease, stopSet, recovered, ready>>
    <3>1. /\ at["start"] = "expired" /\ at'["start"] = "worker" /\ at'["stop"] = at["stop"]
          /\ at' \in [Caller -> StartPlaces \cup StopPlaces]
      BY Zenon, <1>5, <2>2, OneGoes DEF WorkerStarts, Caller, StartPlaces, Working
    <3>2. UNCHANGED <<err, transport, started, pending, server, current, draining, ops>>
      BY Zenon, <1>5 DEF WorkerStarts, lifeVars, recoveryVars, channelVars
    <3>3. ~ready /\ lease
      BY Zenon, <3>1 DEF Readiness, LeaseOutlivesWork, Working
    <3>4. LifeTypes' /\ LeaseOutlivesWork' /\ Places'
      BY Zenon, <2>2, <3>1, <3>2, <3>3
         DEF LifeTypes, LeaseOutlivesWork, Places, Draining, StartPlaces, Working, Recovering
    <3>5. Readiness'
      BY Zenon, <2>2, <3>1, <3>2, <3>3 DEF Readiness
    <3>6. Servers'
      BY Zenon, <2>2, <3>1, <3>2 DEF Servers, Caller
    <3> QED
      BY Zenon, <3>4, <3>5, <3>6
  <2> QED
    BY Zenon, <1>5, <2>1, <2>2 DEF WorkerStarts
<1>6. CASE StartReturns
  <2>1. CASE FailStart("error") /\ UNCHANGED <<started, pending>>
    BY Zenon, <1>6, <2>1, FailKeeps DEF StartReturns, channelVars, recoveryVars, LifeTypes
  <2>2. CASE /\ worker = "running" /\ GoTo("start", "off") /\ ready' = TRUE
             /\ started' = transport /\ pending' = FALSE
             /\ UNCHANGED <<cause, cancelled, lease, stopSet, recovered, worker>>
    <3>1. /\ at["start"] = "worker" /\ ~cancelled /\ at'["start"] = "off" /\ at'["stop"] = at["stop"]
          /\ at' \in [Caller -> StartPlaces \cup StopPlaces]
      BY Zenon, <1>6, <2>2, OneGoes DEF StartReturns, Caller, StartPlaces
    <3>2. UNCHANGED <<err, transport, server, current, draining, ops>>
      BY Zenon, <1>6 DEF StartReturns, recoveryVars, channelVars
    <3>3. lease /\ at["stop"] \in {"off", "request"}
      BY Zenon, <3>1 DEF Places, LeaseOutlivesWork, Working
    <3>4. LifeTypes' /\ LeaseOutlivesWork' /\ Places'
      BY Zenon, <2>2, <3>1, <3>2, <3>3
         DEF LifeTypes, LeaseOutlivesWork, Places, Draining, StartPlaces, Working, Recovering
    <3>5. Readiness'
      BY Zenon, <2>2, <3>1, <3>2, <3>3 DEF Readiness
    <3>6. Servers'
      BY Zenon, <2>2, <3>1, <3>2, <3>3 DEF Servers, Caller
    <3> QED
      BY Zenon, <3>4, <3>5, <3>6
  <2> QED
    BY Zenon, <1>6, <2>1, <2>2 DEF StartReturns
<1>7. CASE StartFails
  BY Zenon, <1>7, FailKeeps DEF StartFails, lifeVars, channelVars, recoveryVars, LifeTypes
<1>8. CASE StartIsCancelled
  <2>1. ops' \in Nat
    BY <1>8 DEF StartIsCancelled, LifeTypes
  <2> QED
    BY Zenon, <1>8, <2>1, FailKeeps DEF StartIsCancelled, lifeVars, channelVars
<1>9. CASE BudgetCleaned
  <2>1. PICK there \in {"drain", "off"} : GoTo("start", there) /\ (there = "drain" <=> transport)
    BY Zenon, <1>9 DEF BudgetCleaned
  <2>2. /\ at["start"] = "bclean" /\ at'["start"] = there /\ at'["stop"] = at["stop"]
        /\ at' \in [Caller -> StartPlaces \cup StopPlaces]
    BY Zenon, <1>9, <2>1, OneGoes DEF BudgetCleaned, Caller, StartPlaces, Cleaning
  <2>3. UNCHANGED <<err, transport, started, pending, server, current, draining, ops, cancelled,
                    stopSet, recovered, ready, worker>>
    BY Zenon, <1>9 DEF BudgetCleaned, lifeVars, recoveryVars, channelVars
  <2>4. LifeTypes' /\ Places'
    BY Zenon, <2>1, <2>2, <2>3
       DEF LifeTypes, Places, Draining, StartPlaces, Working, Recovering, Cleaning
  <2>5. LeaseOutlivesWork'
    BY Zenon, <1>9, <2>2, <2>3 DEF BudgetCleaned, LeaseOutlivesWork, Working, Recovering
  <2>6. Readiness'
    BY Zenon, <2>2, <2>3 DEF Readiness
  <2>7. Servers'
    BY Zenon, <2>1, <2>2, <2>3 DEF Servers, Caller
  <2> QED
    BY Zenon, <2>4, <2>5, <2>6, <2>7
<1> QED
  BY Zenon, <1>1, <1>2, <1>3, <1>4, <1>5, <1>6, <1>7, <1>8, <1>9 DEF StartNext

\* The steps of stop() up to its cleanup.
LEMMA StopKeeps == ASSUME LifeInv, StopNext PROVE LifeInv'
<1> USE DEF LifeInv
<1>1. CASE StopCall
  <2>1. /\ at["stop"] = "off" /\ at'["stop"] = "request" /\ at'["start"] = at["start"]
        /\ at' \in [Caller -> StartPlaces \cup StopPlaces]
    BY Zenon, <1>1, OneGoes DEF StopCall, Caller, StopPlaces
  <2>2. /\ UNCHANGED <<transport, started, pending, server, current, draining, ops, cancelled,
                       lease, worker>>
        /\ err' = [err EXCEPT !["stop"] = FALSE]
    BY Zenon, <1>1 DEF StopCall, recoveryVars, channelVars, budgetVars
  <2>3. \/ transport /\ UNCHANGED <<stopSet, recovered, ready>>
        \/ ~ready' /\ ~recovered' /\ stopSet'
    BY Zenon, <1>1 DEF StopCall, budgetVars, Prepare
  <2>4. LifeTypes' /\ LeaseOutlivesWork' /\ Places'
    BY Zenon, <2>1, <2>2 DEF LifeTypes, LeaseOutlivesWork, Places, Draining, StopPlaces, Caller
  <2>5. Readiness'
    BY <2>1, <2>2, <2>3 DEF Readiness
  <2>6. Servers'
    BY Zenon, <2>1, <2>2 DEF Servers, Caller
  <2> QED
    BY Zenon, <2>4, <2>5, <2>6
<1>2. CASE CancelStart
  <2>1. PICK there \in {"drain", "budget", "observe"} :
             /\ GoTo("stop", there) /\ (there # "observe" => at["start"] = "off")
             /\ (there = "drain" => transport) /\ (there = "budget" => ~transport)
    BY Zenon, <1>2 DEF CancelStart, Observed
  <2>2. /\ at["stop"] = "request" /\ at'["stop"] = there /\ at'["start"] = at["start"]
        /\ at' \in [Caller -> StartPlaces \cup StopPlaces]
    BY Zenon, <1>2, <2>1, OneGoes DEF CancelStart, Caller, StopPlaces, Cleaning
  <2>3. /\ UNCHANGED <<err, transport, started, pending, server, current, draining, ops,
                       lease, stopSet, recovered, ready, worker>>
        /\ at["start"] \in Working => cancelled'
    BY Zenon, <1>2 DEF CancelStart, lifeVars, recoveryVars, channelVars, budgetVars
  <2>4. LifeTypes' /\ LeaseOutlivesWork'
    BY Zenon, <2>2, <2>3 DEF LifeTypes, LeaseOutlivesWork, StopPlaces, Cleaning
  <2>5. Places'
    BY Zenon, <2>1, <2>2, <2>3 DEF Places, Draining
  <2>6. Readiness'
    BY Zenon, <2>1, <2>2, <2>3 DEF Readiness
  <2>7. Servers'
    BY Zenon, <2>1, <2>2, <2>3 DEF Servers, Caller
  <2> QED
    BY Zenon, <2>4, <2>5, <2>6, <2>7
<1>3. CASE StartObserved
  <2>1. PICK there \in {"drain", "budget"} :
             /\ GoTo("stop", there) /\ (there = "drain" <=> transport)
    BY Zenon, <1>3 DEF StartObserved, Observed
  <2>2. /\ at["stop"] = "observe" /\ at'["stop"] = there /\ at'["start"] = at["start"]
        /\ at' \in [Caller -> StartPlaces \cup StopPlaces]
    BY Zenon, <1>3, <2>1, OneGoes DEF StartObserved, Caller, StopPlaces, Cleaning
  <2>3. UNCHANGED <<transport, started, pending, server, current, draining, ops, cancelled,
                    lease, stopSet, recovered, ready, worker>>
    BY Zenon, <1>3 DEF StartObserved, lifeVars, recoveryVars, channelVars, budgetVars
  <2>4. /\ err' \in [Caller -> BOOLEAN]
        /\ at["start"] = "off" \/ (transport /\ err'["stop"])
    BY Zenon, <1>3 DEF StartObserved, LifeTypes, Caller
  <2>5. LifeTypes' /\ LeaseOutlivesWork'
    BY Zenon, <2>2, <2>3, <2>4 DEF LifeTypes, LeaseOutlivesWork, StopPlaces, Cleaning
  <2>6. Places'
    BY Zenon, <2>1, <2>2, <2>3, <2>4 DEF Places, Draining
  <2>7. Readiness'
    BY Zenon, <2>1, <2>2, <2>3 DEF Readiness
  <2>8. Servers'
    BY Zenon, <2>1, <2>2, <2>3 DEF Servers, Caller
  <2> QED
    BY Zenon, <2>5, <2>6, <2>7, <2>8
<1> QED
  BY Zenon, <1>1, <1>2, <1>3 DEF StopNext

\* The steps of the shared cleanup.
LEMMA CleanKeeps ==
  ASSUME LifeInv, NEW c \in Caller,
         Drain(c) \/ MediaStopped(c) \/ ServerClosed(c) \/ BudgetStopped(c)
  PROVE  LifeInv'
<1> USE DEF LifeInv
<1>0. /\ Caller = {"start", "stop"}
      /\ at[c] \in Draining => transport
  BY Zenon DEF Caller, Places
<1>1. CASE Drain(c)
  <2>1. /\ at[c] = "drain" /\ at'[c] = "media" /\ \A d \in Caller \ {c} : at'[d] = at[d]
        /\ at' \in [Caller -> StartPlaces \cup StopPlaces]
    BY Zenon, <1>1, OneGoes DEF Drain, StartPlaces, Cleaning
  <2>2. /\ UNCHANGED <<err, transport, started, pending, server, current, ops, cancelled,
                       lease, stopSet, recovered, ready, worker>>
        /\ draining'
    BY Zenon, <1>1 DEF Drain, lifeVars, recoveryVars, budgetVars
  <2>3. LifeTypes' /\ LeaseOutlivesWork'
    BY Zenon, <1>0, <2>1, <2>2
       DEF LifeTypes, LeaseOutlivesWork, StartPlaces, StopPlaces, Cleaning, Working, Recovering
  <2>4. Places'
    BY Zenon, <1>0, <2>1, <2>2 DEF Places, Draining, Working, Recovering
  <2>5. Readiness'
    BY Zenon, <1>0, <2>1, <2>2 DEF Readiness
  <2>6. Servers'
    BY Zenon, <1>0, <2>1, <2>2 DEF Servers
  <2> QED
    BY Zenon, <2>3, <2>4, <2>5, <2>6
<1>2. CASE MediaStopped(c)
  <2>1. /\ at[c] = "media" /\ at'[c] = "close" /\ \A d \in Caller \ {c} : at'[d] = at[d]
        /\ at' \in [Caller -> StartPlaces \cup StopPlaces]
    BY Zenon, <1>2, OneGoes DEF MediaStopped, StartPlaces, Cleaning
  <2>2. /\ UNCHANGED <<transport, started, pending, current, draining, ops, cancelled,
                       lease, stopSet, recovered, ready, worker>>
        /\ server' = IF server = "open" THEN "closing" ELSE server
    BY Zenon, <1>2 DEF MediaStopped, lifeVars, recoveryVars, budgetVars
  <2>3. err' \in [Caller -> BOOLEAN] /\ (err["stop"] => err'["stop"])
    BY Zenon, <1>0, <1>2 DEF MediaStopped, LifeTypes
  <2>4. LifeTypes' /\ LeaseOutlivesWork'
    BY Zenon, <1>0, <2>1, <2>2, <2>3
       DEF LifeTypes, LeaseOutlivesWork, StartPlaces, StopPlaces, Cleaning, Working, Recovering
  <2>5. Places'
    BY Zenon, <1>0, <2>1, <2>2, <2>3 DEF Places, Draining, Working, Recovering
  <2>6. Readiness'
    BY Zenon, <1>0, <2>1, <2>2 DEF Readiness
  <2>7. Servers'
    BY Zenon, <1>0, <2>1, <2>2 DEF Servers
  <2> QED
    BY Zenon, <2>4, <2>5, <2>6, <2>7
<1>3. CASE ServerClosed(c)
  <2>0. /\ at[c] = "close" /\ transport /\ UNCHANGED <<err, transport, ops, cancelled>>
        /\ \/ (server = "closed" \/ ~current) /\ server' = "closed"
           \/ server' = server /\ server # "closed"
    BY Zenon, <1>0, <1>3 DEF ServerClosed, recoveryVars, Draining
  <2>1. CASE /\ ~err[c] /\ server' = "closed" /\ current' = FALSE /\ draining' = FALSE
             /\ Prepare /\ GoTo(c, "budget") /\ UNCHANGED <<started, pending, lease, worker>>
    <3>1. /\ at'[c] = "budget" /\ \A d \in Caller \ {c} : at'[d] = at[d]
          /\ at' \in [Caller -> StartPlaces \cup StopPlaces]
      BY Zenon, <2>1, OneGoes DEF StartPlaces, Cleaning
    <3>2. ~ready' /\ ~recovered' /\ stopSet'
      BY Zenon, <2>1 DEF Prepare
    <3>3. LifeTypes' /\ LeaseOutlivesWork'
      BY Zenon, <1>0, <2>0, <2>1, <3>1
         DEF LifeTypes, LeaseOutlivesWork, StartPlaces, StopPlaces, Cleaning, Working, Recovering
    <3>4. Places'
      BY Zenon, <1>0, <2>0, <2>1, <3>1 DEF Places, Draining, Working, Recovering
    <3>5. Readiness' /\ Servers'
      BY Zenon, <2>1, <3>2 DEF Readiness, Servers
    <3> QED
      BY Zenon, <3>3, <3>4, <3>5
  <2>2. CASE Returns(c, TRUE) /\ UNCHANGED <<current, draining, budgetVars>>
    <3>1. /\ at'[c] = "off" /\ \A d \in Caller \ {c} : at'[d] = at[d]
          /\ at' \in [Caller -> StartPlaces \cup StopPlaces]
      BY Zenon, <2>2, OneGoes DEF Returns, StartPlaces
    <3>2. pending' /\ (started => started') /\ UNCHANGED <<lease, stopSet, recovered, ready, worker>>
      BY Zenon, <2>0, <2>2 DEF Returns, budgetVars
    <3>3. LifeTypes' /\ LeaseOutlivesWork'
      BY Zenon, <1>0, <2>0, <3>1, <3>2
         DEF LifeTypes, LeaseOutlivesWork, StartPlaces, StopPlaces, Working, Recovering
    <3>4. Places'
      BY Zenon, <1>0, <2>0, <3>1, <3>2 DEF Places, Draining, Working, Recovering
    <3>5. Readiness'
      BY Zenon, <1>0, <2>0, <2>2, <3>1, <3>2 DEF Readiness
    <3>6. Servers'
      BY Zenon, <1>0, <2>0, <2>2, <3>1, <3>2 DEF Servers
    <3> QED
      BY Zenon, <3>3, <3>4, <3>5, <3>6
  <2> QED
    BY Zenon, <1>3, <2>1, <2>2 DEF ServerClosed
<1>4. CASE BudgetStopped(c)
  <2>1. /\ at[c] = "budget" /\ at'[c] = "off" /\ \A d \in Caller \ {c} : at'[d] = at[d]
        /\ at' \in [Caller -> StartPlaces \cup StopPlaces]
    BY Zenon, <1>4, OneGoes DEF BudgetStopped, Returns, StartPlaces
  <2>2. /\ UNCHANGED <<err, transport, server, current, draining, ops, cancelled, stopSet, ready, worker>>
        /\ worker # "running" /\ ops = 0 /\ ~recovered'
    BY Zenon, <1>4 DEF BudgetStopped, recoveryVars, channelVars
  <2>3. server = "closed" /\ ~ready
    BY Zenon, <2>1, <2>2 DEF Servers, Readiness
  <2>4. LifeTypes'
    BY Zenon, <1>0, <2>1, <2>2 DEF LifeTypes, StartPlaces, StopPlaces
  <2>5. at'["start"] = "off" \/ (c = "start" /\ at'["start"] = "off") \/ at["start"] = "off"
    BY Zenon, <1>0, <2>1 DEF Places
  <2>6. LeaseOutlivesWork' /\ Places'
    BY Zenon, <1>0, <2>1, <2>2, <2>5 DEF LeaseOutlivesWork, Places, Draining, Working, Recovering
  <2>7. Readiness'
    BY Zenon, <1>0, <2>1, <2>2, <2>3 DEF Readiness
  <2>8. Servers'
    BY Zenon, <2>2, <2>3 DEF Servers
  <2> QED
    BY Zenon, <2>4, <2>6, <2>7, <2>8
<1> QED
  BY Zenon, <1>1, <1>2, <1>3, <1>4

LEMMA LifeStep == LifeInv /\ [Next]_vars => LifeInv'
<1> SUFFICES ASSUME LifeInv, [Next]_vars PROVE LifeInv'
  BY Zenon
<1>1. CASE StopAllEnds
  <2>1. /\ ops > 0 /\ ops' \in Nat
        /\ UNCHANGED <<at, err, transport, started, pending, server, current, draining, cancelled,
                       lease, stopSet, recovered, ready, worker>>
    BY <1>1 DEF StopAllEnds, callVars, lifeVars, channelVars, budgetVars, LifeInv, LifeTypes
  <2>2. LifeTypes' /\ LeaseOutlivesWork'
    BY <2>1 DEF LifeInv, LifeTypes, LeaseOutlivesWork
  <2>3. Places' /\ Readiness' /\ Servers'
    BY Zenon, <2>1 DEF LifeInv, Places, Readiness, Servers
  <2> QED
    BY Zenon, <2>2, <2>3 DEF LifeInv
<1>2. CASE WorkerEnds
  <2>1. /\ worker' # "running" /\ ~ready'
        /\ UNCHANGED <<at, err, transport, started, pending, server, current, draining, cancelled, ops,
                       lease, stopSet, recovered>>
    BY Zenon, <1>2 DEF WorkerEnds, callVars, lifeVars, recoveryVars, channelVars
  <2>2. LifeTypes' /\ LeaseOutlivesWork' /\ Places'
    BY Zenon, <2>1 DEF LifeInv, LifeTypes, LeaseOutlivesWork, Places
  <2>3. Readiness' /\ Servers'
    BY Zenon, <2>1 DEF LifeInv, Readiness, Servers
  <2> QED
    BY Zenon, <2>2, <2>3 DEF LifeInv
<1>3. CASE Publish \/ SessionEnds
  <2>1. /\ current' => server # "closed"
        /\ UNCHANGED <<at, err, transport, started, pending, server, draining, cancelled, ops,
                       lease, stopSet, recovered, ready, worker>>
    BY Zenon, <1>3 DEF Publish, SessionEnds, callVars, lifeVars, recoveryVars, budgetVars
  <2>2. LifeTypes' /\ LeaseOutlivesWork' /\ Places'
    BY Zenon, <2>1 DEF LifeInv, LifeTypes, LeaseOutlivesWork, Places
  <2>3. Readiness' /\ Servers'
    BY Zenon, <2>1 DEF LifeInv, Readiness, Servers
  <2> QED
    BY Zenon, <2>2, <2>3 DEF LifeInv
<1>4. CASE UNCHANGED vars
  <2>1. UNCHANGED <<at, err, transport, started, pending, server, current, draining, cancelled, ops,
                    lease, stopSet, recovered, ready, worker>>
    BY Zenon, <1>4 DEF vars, callVars, lifeVars, recoveryVars, channelVars, budgetVars
  <2>2. LifeTypes' /\ LeaseOutlivesWork' /\ Places'
    BY Zenon, <2>1 DEF LifeInv, LifeTypes, LeaseOutlivesWork, Places
  <2>3. Readiness' /\ Servers'
    BY Zenon, <2>1 DEF LifeInv, Readiness, Servers
  <2> QED
    BY Zenon, <2>2, <2>3 DEF LifeInv
<1> QED
  BY Zenon, <1>1, <1>2, <1>3, <1>4, StartKeeps, StopKeeps, CleanKeeps DEF Next, CleanNext

\* What a stop that returns without an error has done.
CompleteStop ==
    at["stop"] # "off" /\ at'["stop"] = "off" /\ ~err'["stop"] /\ ~pending' /\ worker' # "failed"
       => /\ ~lease' /\ at'["start"] = "off" /\ worker' # "running"
          /\ server' = "closed" /\ ~current'

LEMMA StopCompletes == ASSUME LifeInv, Next PROVE CompleteStop
<1> SUFFICES ASSUME at["stop"] # "off", at'["stop"] = "off", ~pending'
             PROVE  /\ ~lease' /\ at'["start"] = "off" /\ worker' # "running"
                    /\ server' = "closed" /\ ~current'
  BY Zenon DEF CompleteStop
<1>1. CASE \E c \in Caller : ServerClosed(c) \/ BudgetStopped(c)
  <2>1. PICK c \in Caller : ServerClosed(c) \/ BudgetStopped(c)
    BY Zenon, <1>1
  <2>2. \E there : GoTo(c, there)
    BY Zenon, <2>1 DEF ServerClosed, BudgetStopped, Returns
  <2>3. c = "stop"
    BY Zenon, <2>2, OneGoes DEF Caller, LifeInv
  <2>4. CASE ServerClosed("stop")
    <3>1. transport /\ at["stop"] = "close"
      BY Zenon, <2>4 DEF ServerClosed, LifeInv, Places, Draining
    <3>2. ~GoTo("stop", "budget")
      BY OneGoes DEF LifeInv, Caller
    <3>3. Returns("stop", TRUE)
      BY Zenon, <2>4, <3>2 DEF ServerClosed
    <3> QED
      BY Zenon, <3>1, <3>3 DEF Returns
  <2>5. CASE BudgetStopped("stop")
    <3>1. /\ at["stop"] = "budget" /\ GoTo("stop", "off") /\ ~lease' /\ worker # "running"
          /\ UNCHANGED <<worker, server, current>>
      BY Zenon, <2>5 DEF BudgetStopped, Returns, channelVars
    <3>2. at'["start"] = at["start"] /\ at["start"] = "off"
      BY Zenon, <3>1, OneGoes DEF LifeInv, Places, Caller
    <3>3. server = "closed" /\ ~current
      BY Zenon, <3>1 DEF LifeInv, Servers, Caller
    <3> QED
      BY Zenon, <3>1, <3>2, <3>3
  <2> QED
    BY Zenon, <2>1, <2>3, <2>4, <2>5
<1>2. CASE StartNext
  <2>1. at' = at \/ \E there : GoTo("start", there)
    BY Zenon, <1>2 DEF StartNext, StartCall, ServerStarts, Authenticated, SafetyAttemptFails, RecoveryAdvances,
                WorkerStarts, StartReturns, StartFails, StartIsCancelled, BudgetCleaned, FailStart
  <2> QED
    BY Zenon, <2>1, OneGoes DEF LifeInv, Caller
<1>3. CASE StopNext \/ \E c \in Caller : Drain(c) \/ MediaStopped(c)
  <2>1. \E c \in Caller, there \in {"request", "drain", "budget", "observe", "media", "close"} : GoTo(c, there)
    BY Zenon, <1>3 DEF StopNext, StopCall, CancelStart, StartObserved, Observed, Drain, MediaStopped, Caller
  <2> QED
    BY Zenon, <2>1, OneGoes DEF LifeInv, Caller
<1>4. CASE StopAllEnds \/ WorkerEnds \/ Publish \/ SessionEnds
  BY Zenon, <1>4 DEF StopAllEnds, WorkerEnds, Publish, SessionEnds, callVars
<1> QED
  BY Zenon, <1>1, <1>2, <1>3, <1>4 DEF Next, CleanNext

\* However starts and stops of the process overlap, fail and are cancelled, the lease goes
\* last, readiness is real, the server is somebody's to close and a clean stop is complete.
THEOREM OwnedAlways == Spec => ProcessIsOwned
<1>1. LifeInv => LeaseOutlivesWork
  BY Zenon DEF LifeInv
<1>2. LifeInv => ReadyIsOperational
  <2> SUFFICES ASSUME LifeInv, HouseholdReady PROVE ReadyIsOperational
    BY Zenon DEF ReadyIsOperational
  <2>1. recovered /\ ready /\ worker = "running" /\ (transport => current /\ ~draining)
    BY Zenon DEF HouseholdReady, RequireReady
  <2>2. lease /\ at["start"] = "off" /\ at["stop"] # "budget"
    BY Zenon, <2>1 DEF LifeInv, LeaseOutlivesWork, Readiness
  <2>3. at["stop"] \notin {"media", "close"}
    BY Zenon, <2>1 DEF LifeInv, Readiness, Places, Draining
  <2>4. transport => server # "closed"
    BY Zenon, <2>1 DEF LifeInv, Servers
  <2> QED
    BY Zenon, <2>2, <2>3, <2>4 DEF ReadyIsOperational
<1>3. LifeInv => UnleasedServerIsOwed
  BY Zenon DEF LifeInv, Servers, UnleasedServerIsOwed, Caller
<1>4. LifeInv /\ [Next]_vars => [CompleteStop]_vars
  BY Zenon, StopCompletes
<1>5. CleanStopIsComplete <=> [][CompleteStop]_vars
  BY PTL DEF CleanStopIsComplete, CompleteStop
<1> QED
  BY LifeInit, LifeStep, <1>1, <1>2, <1>3, <1>4, <1>5, PTL DEF Spec, ProcessIsOwned

=============================================================================
