--------------------------- MODULE InvitationsProofs ---------------------------
(***************************************************************************)
(* Proofs about Invitations, for any keys, texts and informations: the     *)
(* types, that conversions, buildings and translations in whatever order   *)
(* leave an invitation's keys what they were, and what is converted.       *)
(***************************************************************************)
EXTENDS Invitations, SequenceTheorems, TLAPS

Ids == {None} \cup {DocumentOf(t).id : t \in Received} \cup {i.InvitationID : i \in Infos}
InvitationType ==
  [version : {"V0", "V1"}, type : {"connections", "out-of-band"}, id : Ids, services : Seq(Services)]

\* An invitation has the type of its version, and the keys it was made with.
Kept(i) ==
  /\ i \in InvitationType
  /\ i.version = "V0" => i.type = "connections" /\ Len(i.services) = 1
  /\ i.version = "V1" => i.type = "out-of-band"
  /\ Meant(i.services) \in Origins(i.id)
KeptOrNone(i) == i = NoInvitation \/ Kept(i)

InvitationsInv ==
  /\ invitation \in [Handles -> InvitationType \cup {NoInvitation}]
  /\ \A h \in Handles : KeptOrNone(invitation[h])
  /\ built.kind \in {"JSON", "URL"} /\ KeptOrNone(Parse(DocumentOf(built)))
  /\ \A m \in DOMAIN result : result[m] \in KeyTexts /\ result[m].form \in {"b58", "other"}
-----------------------------------------------------------------------------
(* Keys and their forms.                                                     *)

\* A conversion changes forms only.
LEMMA ConvertedKeys ==
  ASSUME NEW keys \in Seq(KeyTexts), NEW n
  PROVE  /\ Converted(keys, n) \in Seq(KeyTexts)
         /\ DOMAIN Converted(keys, n) = DOMAIN keys
         /\ KeysOf(Converted(keys, n)) = KeysOf(keys)
<1>1. \A m \in DOMAIN keys : keys[m] \in KeyTexts
  OBVIOUS
<1>2. \A m \in DOMAIN keys :
        Converted(keys, n)[m] \in KeyTexts /\ Converted(keys, n)[m].key = keys[m].key
  BY <1>1 DEF Converted, KeyTexts, Forms
<1>3. DOMAIN Converted(keys, n) = DOMAIN keys
  BY DEF Converted
<1>4. Len(keys) \in Nat /\ DOMAIN keys = 1 .. Len(keys)
  OBVIOUS
<1>5. Converted(keys, n) \in [1 .. Len(keys) -> KeyTexts]
  BY <1>2, <1>4 DEF Converted
<1>6. Converted(keys, n) \in Seq(KeyTexts)
  BY <1>4, <1>5, SeqDef
<1>7. KeysOf(Converted(keys, n)) = KeysOf(keys)
  BY <1>2, <1>3 DEF KeysOf
<1> QED
  BY <1>3, <1>6, <1>7

\* A conversion that reaches the end leaves no did:key.
LEMMA ConvertedForms ==
  ASSUME NEW keys \in Seq(KeyTexts), Broken(keys) = {}, NEW m \in DOMAIN keys
  PROVE  Converted(keys, Reach(keys))[m].form \in {"b58", "other"}
<1>1. keys[m] \in KeyTexts /\ m \in 1 .. Len(keys) /\ Len(keys) \in Nat
  OBVIOUS
<1>2. Reach(keys) = Len(keys) /\ m <= Len(keys)
  BY <1>1 DEF Reach
<1>3. keys[m].form \in {"b58", "did:key", "other"}
  BY <1>1 DEF Broken, KeyTexts, Forms
<1>4. Converted(keys, Reach(keys))[m] =
        IF keys[m].form = "did:key" THEN [keys[m] EXCEPT !.form = "b58"] ELSE keys[m]
  BY <1>2 DEF Converted
<1> QED
  BY <1>1, <1>3, <1>4 DEF KeyTexts

\* Services with the same keys mean the same.
LEMMA SameMeaning ==
  ASSUME NEW s \in Seq(Services), NEW t \in Seq(Services), Len(s) = Len(t),
         \A n \in 1 .. Len(s), l \in Lists : KeysOf(s[n][l]) = KeysOf(t[n][l])
  PROVE  Meant(s) = Meant(t)
<1>1. DOMAIN s = 1 .. Len(s) /\ DOMAIN t = 1 .. Len(s)
  OBVIOUS
<1>2. \A n \in 1 .. Len(s) : [l \in Lists |-> KeysOf(s[n][l])] = [l \in Lists |-> KeysOf(t[n][l])]
  OBVIOUS
<1> QED
  BY <1>1, <1>2 DEF Meant

\* One list of one service is converted, which keeps what the services mean.
InPlace(s, n, list, k) == [s EXCEPT ![n][list] = Converted(s[n][list], k)]
LEMMA ServiceConverted ==
  ASSUME NEW s \in Seq(Services), NEW n \in DOMAIN s, NEW list \in Lists, NEW k
  PROVE  LET t == InPlace(s, n, list, k)
         IN  t \in Seq(Services) /\ Len(t) = Len(s) /\ Meant(t) = Meant(s)
<1> DEFINE t == InPlace(s, n, list, k)
           x == [s[n] EXCEPT ![list] = Converted(s[n][list], k)]
<1>1. n \in 1 .. Len(s) /\ s[n] \in Services
  OBVIOUS
<1>2. s[n][list] \in Seq(KeyTexts)
  BY <1>1 DEF Services
<1>3. /\ Converted(s[n][list], k) \in Seq(KeyTexts)
      /\ KeysOf(Converted(s[n][list], k)) = KeysOf(s[n][list])
  BY <1>2, ConvertedKeys
<1>4. x \in Services /\ \A l \in Lists : KeysOf(x[l]) = KeysOf(s[n][l])
  BY <1>1, <1>3 DEF Services
<1>5. t = [s EXCEPT ![n] = x]
  BY DEF InPlace
<1> HIDE DEF x, t
<1>6. /\ t \in Seq(Services) /\ Len(t) = Len(s)
      /\ \A m \in 1 .. Len(s) : t[m] = IF m = n THEN x ELSE s[m]
  <2>1. Len(s) \in Nat /\ DOMAIN s = 1 .. Len(s)
    OBVIOUS
  <2>2. t = [m \in DOMAIN s |-> IF m = n THEN x ELSE s[m]]
    BY <1>1, <1>5
  <2>3. \A m \in 1 .. Len(s) : t[m] = IF m = n THEN x ELSE s[m]
    BY <2>1, <2>2
  <2>4. \A m \in 1 .. Len(s) : s[m] \in Services
    BY <2>1
  <2>5. t \in [1 .. Len(s) -> Services]
    BY <1>4, <2>1, <2>2, <2>3, <2>4
  <2>6. t \in Seq(Services) /\ Len(t) = Len(s)
    BY <2>1, <2>5, SeqDef, LenProperties
  <2> QED
    BY <2>3, <2>6
<1>7. \A m \in 1 .. Len(t), l \in Lists : KeysOf(t[m][l]) = KeysOf(s[m][l])
  BY <1>4, <1>6
<1>8. Meant(t) = Meant(s)
  BY <1>6, <1>7, SameMeaning
<1> QED
  BY <1>6, <1>8 DEF t
-----------------------------------------------------------------------------
(* Texts.                                                                    *)

\* What is no document has no type that is translated.
LEMMA NoDocumentType == NoDocument.type = None /\ None # "connections" /\ None # "out-of-band"
  BY DEF NoDocument, Document, None

\* What is built from an invitation translates into the same invitation.
LEMMA ParseMarshal ==
  ASSUME NEW i, Kept(i)
  PROVE  Parse(Marshal(i)) = i /\ Marshal(i) # NoDocument
<1>1. i \in InvitationType /\ i.services \in Seq(Services)
  BY DEF Kept, InvitationType
<1>2. i = [version |-> i.version, type |-> i.type, id |-> i.id, services |-> i.services]
  BY <1>1 DEF InvitationType
<1>3. CASE i.version = "V0"
  <2>1. i.type = "connections" /\ Len(i.services) = 1
    BY <1>3 DEF Kept
  <2>2. i.services = <<i.services[1]>>
    <3>1. i.services[1] \in Services
      BY <1>1, <2>1
    <3>2. <<i.services[1]>> \in Seq(Services) /\ Len(<<i.services[1]>>) = 1
      BY <3>1
    <3>3. \A m \in 1 .. 1 : i.services[m] = <<i.services[1]>>[m]
      OBVIOUS
    <3> QED
      BY <1>1, <2>1, <3>2, <3>3, SeqEqual
  <2>3. /\ Marshal(i).type = "connections" /\ Marshal(i).id = i.id
        /\ Marshal(i).service = i.services[1]
    BY <1>3, <2>1 DEF Marshal, Document
  <2>4. Parse(Marshal(i)) = Invitation("V0", i.type, i.id, <<i.services[1]>>)
    BY <2>1, <2>3 DEF Parse
  <2>5. Marshal(i) # NoDocument
    <3> HIDE DEF Marshal
    <3> QED
      BY <2>3, NoDocumentType
  <2> QED
    BY <1>2, <1>3, <2>2, <2>4, <2>5 DEF Invitation
<1>4. CASE i.version = "V1"
  <2>1. i.type = "out-of-band"
    BY <1>4 DEF Kept
  <2>2. /\ Marshal(i).type = "out-of-band" /\ Marshal(i).id = i.id
        /\ Marshal(i).services = i.services
    BY <1>4, <2>1 DEF Marshal, Document
  <2>3. Parse(Marshal(i)) = Invitation("V1", i.type, i.id, i.services)
    BY <2>1, <2>2 DEF Parse
  <2>4. Marshal(i) # NoDocument
    <3> HIDE DEF Marshal
    <3> QED
      BY <2>2, NoDocumentType
  <2> QED
    BY <1>2, <1>4, <2>3, <2>4 DEF Invitation
<1> QED
  BY <1>1, <1>3, <1>4 DEF InvitationType

\* A received text is an invitation with the keys it was made with, or none.
LEMMA ReceivedKept ==
  ASSUME NEW t \in Received
  PROVE  KeptOrNone(Parse(DocumentOf(t)))
<1> DEFINE d == DocumentOf(t)
           i == Parse(d)
<1>1. /\ d.type \in Types \cup {None} /\ d.service \in Services /\ d.services \in Seq(Services)
      /\ d.id \in Ids
  BY InputsAssumption DEF Ids
<1>2. ASSUME i.id = d.id PROVE Meant(i.services) \in Origins(i.id)
  BY <1>2 DEF Origins
<1>3. CASE d.type = "connections"
  <2>1. i = [version |-> "V0", type |-> "connections", id |-> d.id, services |-> <<d.service>>]
    BY <1>3 DEF Parse, Invitation
  <2>2. <<d.service>> \in Seq(Services) /\ Len(<<d.service>>) = 1
    BY <1>1
  <2> HIDE DEF i, d
  <2>3. i \in InvitationType /\ i.version = "V0" /\ i.type = "connections" /\ Len(i.services) = 1 /\ i.id = d.id
    BY <1>1, <2>1, <2>2 DEF InvitationType
  <2>4. Kept(i)
    BY <1>2, <2>3 DEF Kept
  <2> QED
    BY <2>4 DEF KeptOrNone, i, d
<1>4. CASE d.type = "out-of-band"
  <2>1. i = [version |-> "V1", type |-> "out-of-band", id |-> d.id, services |-> d.services]
    BY <1>4 DEF Parse, Invitation
  <2> HIDE DEF i, d
  <2>2. i \in InvitationType /\ i.version = "V1" /\ i.type = "out-of-band" /\ i.id = d.id
    BY <1>1, <2>1 DEF InvitationType
  <2>3. Kept(i)
    BY <1>2, <2>2 DEF Kept
  <2> QED
    BY <2>3 DEF KeptOrNone, i, d
<1>5. CASE d.type \notin {"connections", "out-of-band"}
  BY <1>5 DEF Parse, KeptOrNone
<1> QED
  BY <1>3, <1>4, <1>5

\* The type of a service is that of its lists.
LEMMA ServiceType ==
  ASSUME NEW S, NEW a \in S, NEW b \in S
  PROVE  Service(a, b) \in [Lists -> S]
BY DEF Service, Lists

\* An invitation created from an information has its key.
LEMMA NewKept ==
  ASSUME NEW info \in Infos
  PROVE  Kept(New(info))
<1> DEFINE k == IF info.version = "V1" THEN b58ToDIDKey(info.RecipientKey) ELSE info.RecipientKey
           s == <<Service(<<k>>, <<>>)>>
           o == <<Service(<<info.RecipientKey>>, <<>>)>>
<1>1. info.RecipientKey \in KeyTexts
  BY InputsAssumption
<1>2. k \in KeyTexts /\ k.key = info.RecipientKey.key
  BY <1>1 DEF b58ToDIDKey, KeyTexts, Forms
<1>3. ASSUME NEW a \in KeyTexts
      PROVE  Service(<<a>>, <<>>) \in Services
  <2>1. <<a>> \in Seq(KeyTexts) /\ <<>> \in Seq(KeyTexts)
    OBVIOUS
  <2> QED
    BY <2>1, ServiceType DEF Services
<1>4. s \in Seq(Services) /\ o \in Seq(Services) /\ Len(s) = 1 /\ Len(o) = 1
  <2>1. Service(<<k>>, <<>>) \in Services /\ Service(<<info.RecipientKey>>, <<>>) \in Services
    BY <1>1, <1>2, <1>3
  <2> QED
    BY <2>1
<1>5. KeysOf(<<k>>) = KeysOf(<<info.RecipientKey>>)
  BY <1>2 DEF KeysOf
<1>6. \A n \in 1 .. Len(s), l \in Lists : KeysOf(s[n][l]) = KeysOf(o[n][l])
  <2>1. s[1] = Service(<<k>>, <<>>) /\ o[1] = Service(<<info.RecipientKey>>, <<>>)
    OBVIOUS
  <2>2. \A l \in Lists : KeysOf(s[1][l]) = KeysOf(o[1][l])
    BY <1>5, <2>1 DEF Service, Lists
  <2> QED
    BY <1>4, <2>2
<1>7. Meant(s) = Meant(o)
  <2> HIDE DEF s, o
  <2> QED
    BY <1>4, <1>6, SameMeaning
<1>8. Meant(o) \in Origins(info.InvitationID)
  BY DEF Origins
<1>9. New(info) = [version |-> info.version, type |-> info.InvitationType, id |-> info.InvitationID, services |-> s]
  BY DEF New, Invitation
<1>10. \/ info.version = "V0" /\ info.InvitationType = "connections"
       \/ info.version = "V1" /\ info.InvitationType = "out-of-band"
  BY InputsAssumption
<1>11. info.InvitationID \in Ids
  BY DEF Ids
<1> HIDE DEF s, o
<1>12. New(info) \in InvitationType
  BY <1>4, <1>9, <1>10, <1>11 DEF InvitationType
<1> QED
  BY <1>4, <1>7, <1>8, <1>9, <1>10, <1>12 DEF Kept
-----------------------------------------------------------------------------
(* The invariant.                                                            *)

\* Nothing is held, built or converted at first.
LEMMA InvInit == Init => InvitationsInv
<1> SUFFICES ASSUME Init PROVE InvitationsInv
  OBVIOUS
<1>1. built.kind = "URL" /\ DocumentOf(built) = NoDocument
  BY DEF Init, URL, DocumentOf
<1>2. Parse(NoDocument) = NoInvitation
  BY DEF Parse, NoDocument, Document, None
<1> QED
  BY <1>1, <1>2 DEF Init, InvitationsInv, KeptOrNone

\* A handle gets an invitation.
LEMMA HandleSet ==
  ASSUME InvitationsInv, NEW h \in Handles, NEW i, Kept(i), invitation' = [invitation EXCEPT ![h] = i],
         result' = <<>>, UNCHANGED built
  PROVE  InvitationsInv'
<1>1. i \in InvitationType
  BY DEF Kept
<1>2. invitation' \in [Handles -> InvitationType \cup {NoInvitation}]
  BY <1>1 DEF InvitationsInv
<1>3. \A g \in Handles : KeptOrNone(invitation'[g])
  BY DEF InvitationsInv, KeptOrNone
<1> QED
  BY <1>2, <1>3 DEF InvitationsInv

\* Every operation keeps it.
LEMMA InvStep == InvitationsInv /\ [Next]_vars => InvitationsInv'
<1> SUFFICES ASSUME InvitationsInv, [Next]_vars PROVE InvitationsInv'
  OBVIOUS
<1>1. CASE UNCHANGED vars
  BY <1>1 DEF vars, InvitationsInv
<1>2. ASSUME NEW h \in Handles, NEW info \in Infos, Create(h, info) PROVE InvitationsInv'
  BY <1>2, NewKept, HandleSet DEF Create
<1>3. ASSUME NEW h \in Handles, NEW text \in Received \cup {built}, Translate(h, text) PROVE InvitationsInv'
  <2>1. KeptOrNone(Parse(DocumentOf(text)))
    BY ReceivedKept DEF InvitationsInv
  <2>2. Kept(Parse(DocumentOf(text)))
    BY <1>3, <2>1 DEF Translate, KeptOrNone
  <2> QED
    BY <1>3, <2>2, HandleSet DEF Translate
<1>4. ASSUME NEW h \in Handles, Build(h) PROVE InvitationsInv'
  <2> DEFINE i == invitation[h]
             d == Marshal(i)
  <2>1. Kept(i)
    BY <1>4 DEF Build, InvitationsInv, KeptOrNone
  <2>2. Parse(d) = i /\ d # NoDocument
    BY <2>1, ParseMarshal
  <2>3. built' \in {JSON(d), URL(d, NoDocument), URL(NoDocument, d)}
    BY <1>4 DEF Build
  <2>4. built'.kind \in {"JSON", "URL"} /\ DocumentOf(built') = d
    <3> HIDE DEF d
    <3> QED
      BY <2>2, <2>3 DEF JSON, URL, DocumentOf
  <2>5. KeptOrNone(Parse(DocumentOf(built')))
    BY <2>1, <2>2, <2>4 DEF KeptOrNone
  <2> QED
    BY <1>4, <2>4, <2>5 DEF Build, InvitationsInv
<1>5. ASSUME NEW h \in Handles, NEW n \in DOMAIN invitation[h].services, NEW list \in Lists, KeysAsB58(h, n, list)
      PROVE  InvitationsInv'
  <2> DEFINE i == invitation[h]
             keys == i.services[n][list]
             converted == Converted(keys, Reach(keys))
             services == [i.services EXCEPT ![n][list] = converted]
             j == [i EXCEPT !.services = services]
  <2>1. Kept(i)
    BY <1>5 DEF NoInvitation, Invitation, InvitationsInv, KeptOrNone
  <2>2. i \in InvitationType /\ i.services \in Seq(Services)
    BY <2>1 DEF Kept, InvitationType
  <2>3. /\ services \in Seq(Services) /\ Len(services) = Len(i.services)
        /\ Meant(services) = Meant(i.services)
    <3>1. n \in DOMAIN i.services
      OBVIOUS
    <3>2. services = InPlace(i.services, n, list, Reach(keys))
      BY DEF InPlace
    <3> HIDE DEF services, i, keys
    <3> QED
      BY <2>2, <3>1, <3>2, ServiceConverted
  <2>4. keys \in Seq(KeyTexts)
    <3>1. i.services[n] \in Services
      BY <2>2
    <3> QED
      BY <3>1 DEF Services
  <2>5. invitation' = [invitation EXCEPT ![h] = j] /\ UNCHANGED built
    BY <1>5 DEF KeysAsB58
  <2>6. result' = IF Broken(keys) = {} THEN converted ELSE <<>>
    BY <1>5 DEF KeysAsB58
  <2>7. \A m \in DOMAIN result' : result'[m] \in KeyTexts /\ result'[m].form \in {"b58", "other"}
    <3>1. converted \in Seq(KeyTexts) /\ DOMAIN converted = DOMAIN keys
      BY <2>4, ConvertedKeys
    <3>2. ASSUME Broken(keys) = {}, NEW m \in DOMAIN keys PROVE converted[m].form \in {"b58", "other"}
      BY <2>4, <3>2, ConvertedForms
    <3> HIDE DEF converted
    <3>3. \A m \in DOMAIN converted : converted[m] \in KeyTexts
      BY <3>1
    <3> QED
      BY <2>6, <3>1, <3>2, <3>3
  <2> HIDE DEF services, converted
  <2>8. /\ j \in InvitationType /\ j.services = services /\ j.version = i.version
        /\ j.type = i.type /\ j.id = i.id
    BY <2>2, <2>3 DEF InvitationType
  <2> HIDE DEF j
  <2>9. Kept(j)
    BY <2>1, <2>3, <2>8 DEF Kept
  <2>10. invitation' \in [Handles -> InvitationType \cup {NoInvitation}]
    BY <2>5, <2>8 DEF InvitationsInv
  <2>11. \A g \in Handles : KeptOrNone(invitation'[g])
    BY <2>5, <2>9 DEF InvitationsInv, KeptOrNone
  <2> QED
    BY <2>5, <2>7, <2>10, <2>11 DEF InvitationsInv
<1> QED
  BY <1>1, <1>2, <1>3, <1>4, <1>5 DEF Next

(* Whatever is created, translated, built and converted keeps its type. *)
THEOREM TypeCorrect == Spec => []TypeOK
<1>1. ASSUME NEW i, KeptOrNone(i) PROVE InvitationOK(i)
  <2>1. CASE i = NoInvitation
    <3>1. i.version = None /\ i.type = None /\ i.services = <<>>
      BY <2>1 DEF NoInvitation, Invitation
    <3>2. DOMAIN i.services = {}
      BY <3>1
    <3>3. None # "V0"
      BY DEF None
    <3> QED
      BY <3>1, <3>2, <3>3 DEF InvitationOK
  <2>2. CASE Kept(i)
    <3>1. i \in InvitationType /\ i.services \in Seq(Services)
      BY <2>2 DEF Kept, InvitationType
    <3>2. \A n \in DOMAIN i.services : i.services[n] \in Services
      BY <3>1
    <3>3. \A n \in DOMAIN i.services, l \in Lists : i.services[n][l] \in Seq(KeyTexts)
      BY <3>2 DEF Services
    <3>4. \A n \in DOMAIN i.services, l \in Lists :
            \A m \in DOMAIN i.services[n][l] : i.services[n][l][m] \in KeyTexts
      BY <3>3
    <3>5. i.version \in {None, "V0", "V1"} /\ i.type \in Types \cup {None}
      BY <3>1 DEF InvitationType, Types
    <3>6. i.version = "V0" => Len(i.services) = 1
      BY <2>2 DEF Kept
    <3> QED
      BY <3>4, <3>5, <3>6 DEF InvitationOK
  <2> QED
    BY <1>1, <2>1, <2>2 DEF KeptOrNone
<1>2. InvitationsInv => TypeOK
  BY <1>1 DEF InvitationsInv, TypeOK
<1> QED
  BY <1>2, InvInit, InvStep, PTL DEF Spec

(* However an invitation is converted, also half way, built, sent and
   translated, it has the keys it was made with, in their order. *)
THEOREM KeysNeverChange == Spec => []KeysKept
<1>1. InvitationsInv => KeysKept
  BY DEF InvitationsInv, KeptOrNone, Kept, KeysKept
<1> QED
  BY <1>1, InvInit, InvStep, PTL DEF Spec

(* Who asks for keys as base58 never gets a did:key (didKeysToB58). *)
THEOREM ConvertedAll == Spec => []ReturnsB58
<1>1. InvitationsInv => ReturnsB58
  BY DEF InvitationsInv, ReturnsB58
<1> QED
  BY <1>1, InvInit, InvStep, PTL DEF Spec
================================================================================
