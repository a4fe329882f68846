------------------------------ MODULE Invitations ------------------------------
(***************************************************************************)
(* The invitations of a DID exchange (std/didexchange/invitation): created *)
(* or translated from a text that somebody sent, built into a text again,  *)
(* and asked for the keys of their services.                               *)
(*                                                                         *)
(* A key comes in one of two forms, base58 and did:key, or in none that the*)
(* code can read.  RecipientKeysAsB58 and RoutingKeysAsB58 convert a list  *)
(* of keys in place, and the list is the invitation's own: Services copies *)
(* only its header.  So a service is named here by its invitation and its  *)
(* number.  Labels, endpoints and images are left out.                     *)
(***************************************************************************)
EXTENDS Naturals, Sequences, SequencesExt, FiniteSets

CONSTANTS
  Handles,   \* the variables that hold invitations
  Keys,      \* public keys
  Infos,     \* AgentInfos to create invitations from, with the versions
  Received   \* texts that others send

VARIABLES
  invitation, \* the invitation of each handle
  built,      \* the text that was built last
  result      \* what the conversion returned that was the last step
vars == <<invitation, built, result>>

None == ""
Types == {"connections", "out-of-band", "other"}
Forms == {"b58", "did:key", "broken did:key", "other"}
KeyTexts == [form : Forms, key : Keys]
Lists == {"RecipientKeys", "RoutingKeys"}

\* ServiceEndpoint, Invitation and its JSON.  A V0 has the one service that is
\* spread over its fields.
Service(recipients, routing) == [RecipientKeys |-> recipients, RoutingKeys |-> routing]
Invitation(version, type, id, services) ==
  [version |-> version, type |-> type, id |-> id, services |-> services]
NoInvitation == Invitation(None, None, None, <<>>)
Document(type, id, service, services) ==
  [type |-> type, id |-> id, service |-> service, services |-> services]
NoService == Service(<<>>, <<>>)
NoDocument == Document(None, None, NoService, <<>>)

\* A text is JSON, or a URL with parameters c_i and oob.
JSON(document) == [kind |-> "JSON", c_i |-> document, oob |-> NoDocument]
URL(c_i, oob) == [kind |-> "URL", c_i |-> c_i, oob |-> oob]

-----------------------------------------------------------------------------
(* Conversions.                                                              *)

\* Base58 becomes did:key; what neither form fits stays.
b58ToDIDKey(k) == IF k.form = "b58" THEN [k EXCEPT !.form = "did:key"] ELSE k

\* MUTANT of Converted: the converted key is the list's first one.
Converted_First(keys, n) ==
  [m \in DOMAIN keys |-> IF m <= n THEN [keys[1] EXCEPT !.form = "b58"] ELSE keys[m]]

\* The list when the loop of didKeysToB58 has passed its first n keys.
Converted(keys, n) ==
  [m \in DOMAIN keys |->
     IF m <= n /\ keys[m].form = "did:key" THEN [keys[m] EXCEPT !.form = "b58"] ELSE keys[m]]

\* How far it gets: it panics at a did:key that it cannot read.
Broken(keys) == {m \in DOMAIN keys : keys[m].form = "broken did:key"}

\* MUTANT of Reach: the loop leaves out the last key.
Reach_Short(keys) == Len(keys) - 1

Reach(keys) ==
  IF Broken(keys) = {} THEN Len(keys)
  ELSE (CHOOSE m \in Broken(keys) : \A k \in Broken(keys) : m <= k) - 1

\* json.Marshal of either version.
Marshal(i) ==
  IF i.version = "V0" THEN Document(i.type, i.id, i.services[1], <<>>)
  ELSE Document(i.type, i.id, NoService, i.services)

\* MUTANT of Parse: a V0 gets the services of a V1.
Parse_Services(document) ==
  Invitation(IF document.type = "connections" THEN "V0" ELSE "V1", document.type, document.id, document.services)

\* parseInvitationJSON: the type decides, whatever else the document has.
Parse(document) ==
  CASE document.type = "connections" -> Invitation("V0", document.type, document.id, <<document.service>>)
    [] document.type = "out-of-band" -> Invitation("V1", document.type, document.id, document.services)
    [] OTHER -> NoInvitation

\* c_i comes before oob.
DocumentOf(text) ==
  IF text.kind = "JSON" \/ text.c_i # NoDocument THEN text.c_i ELSE text.oob

\* Of what is received and created: the type of an AgentInfo is of its version.
Services == [Lists -> Seq(KeyTexts)]
ASSUME InputsAssumption ==
  /\ \A i \in Infos :
       /\ i.RecipientKey \in KeyTexts
       /\ <<i.version, i.InvitationType>> \in {<<"V0", "connections">>, <<"V1", "out-of-band">>}
  /\ \A t \in Received :
       LET d == DocumentOf(t) IN
       d.type \in Types \cup {None} /\ d.service \in Services /\ d.services \in Seq(Services)
-----------------------------------------------------------------------------
InvitationOK(i) ==
  /\ i.version \in {None, "V0", "V1"} /\ i.type \in Types \cup {None}
  /\ i.version = "V0" => Len(i.services) = 1
  /\ \A n \in DOMAIN i.services, l \in Lists :
       \A m \in DOMAIN i.services[n][l] : i.services[n][l][m] \in KeyTexts

TypeOK ==
  /\ \A h \in Handles : InvitationOK(invitation[h])
  /\ built.kind \in {"JSON", "URL"} /\ InvitationOK(Parse(DocumentOf(built)))
  /\ \A m \in DOMAIN result : result[m] \in KeyTexts

Init ==
  /\ invitation = [h \in Handles |-> NoInvitation]
  /\ built = URL(NoDocument, NoDocument)
  /\ result = <<>>
-----------------------------------------------------------------------------
(* Operations.                                                               *)

\* CreateInvitationV0 and CreateInvitationV1.
New(info) ==
  Invitation(info.version, info.InvitationType, info.InvitationID,
    << Service(<<IF info.version = "V1" THEN b58ToDIDKey(info.RecipientKey) ELSE info.RecipientKey>>, <<>>) >>)

\* The type is not compared with the version.
Create(h, info) ==
  /\ invitation' = [invitation EXCEPT ![h] = New(info)]
  /\ result' = <<>> /\ UNCHANGED built

\* A text without an invitation is an error, and the handle stays.
Translate(h, text) ==
  /\ Parse(DocumentOf(text)) # NoInvitation
  /\ invitation' = [invitation EXCEPT ![h] = Parse(DocumentOf(text))]
  /\ result' = <<>> /\ UNCHANGED built

\* Build, or json.Marshal by the caller.
Build(h) ==
  LET i == invitation[h]
      document == Marshal(i)
  IN
  /\ i # NoInvitation
  /\ \/ built' = JSON(document)
     \/ built' = IF i.version = "V0" THEN URL(document, NoDocument) ELSE URL(NoDocument, document)
  /\ result' = <<>> /\ UNCHANGED invitation

\* RecipientKeysAsB58 or RoutingKeysAsB58 of a service.
KeysAsB58(h, n, list) ==
  LET keys == invitation[h].services[n][list]
      converted == Converted(keys, Reach(keys))
  IN
  /\ invitation' = [invitation EXCEPT ![h].services[n][list] = converted]
  /\ result' = IF Broken(keys) = {} THEN converted ELSE <<>>
  /\ UNCHANGED built

Next ==
  \E h \in Handles :
    \/ \E info \in Infos : Create(h, info)
    \/ \E text \in Received \cup {built} : Translate(h, text)
    \/ Build(h)
    \/ \E n \in DOMAIN invitation[h].services, list \in Lists : KeysAsB58(h, n, list)

Spec == Init /\ [][Next]_vars
-----------------------------------------------------------------------------
(* Properties.                                                               *)

KeysOf(keys) == [m \in DOMAIN keys |-> keys[m].key]

\* What an ID stands for: the services of the document that was received, or
\* the key of the information that it was created from.
Meant(services) == [n \in DOMAIN services |-> [l \in Lists |-> KeysOf(services[n][l])]]
Origins(id) ==
  {Meant(Parse(DocumentOf(t)).services) : t \in {x \in Received : DocumentOf(x).id = id}}
  \cup {Meant(<<Service(<<i.RecipientKey>>, <<>>)>>) : i \in {x \in Infos : x.InvitationID = id}}

\* Whatever is converted in place, built, sent and translated again, in whatever
\* order, and even if a conversion stops half way, an invitation names the keys
\* it was made with, in their order (didKeysToB58, b58ToDIDKey, Build and
\* Translate).  This is so for types that are of their versions.
KeysKept ==
  \A h \in Handles :
    invitation[h] # NoInvitation => Meant(invitation[h].services) \in Origins(invitation[h].id)

\* What a conversion returns has no did:key in it, whatever was converted, or
\* given up half way, in the shared list before (didKeysToB58).
ReturnsB58 ==
  \A m \in DOMAIN result : result[m].form \in {"b58", "other"}
==============================================================================
