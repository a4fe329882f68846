---------------------------- MODULE MCInvitations ----------------------------
(* Two invitations of each version that were received or are made here.  The  *)
(* types fit the versions.                                                    *)
EXTENDS Invitations

B58(k) == [form |-> "b58", key |-> k]
Did(k) == [form |-> "did:key", key |-> k]
BrokenKey(k) == [form |-> "broken did:key", key |-> k]

MCInfos ==
  { [version |-> "V0", InvitationType |-> "connections", InvitationID |-> "made V0", RecipientKey |-> B58("k1")],
    [version |-> "V1", InvitationType |-> "out-of-band", InvitationID |-> "made V1", RecipientKey |-> B58("k1")],
    [version |-> "V1", InvitationType |-> "out-of-band", InvitationID |-> "made did", RecipientKey |-> Did("k2")] }

MCReceived ==
  { JSON(Document("connections", "V0", Service(<<Did("k1"), B58("k2")>>, <<B58("k1")>>), <<>>)),
    URL(NoDocument, Document("out-of-band", "V1", NoService,
          <<Service(<<Did("k1"), Did("k2")>>, <<Did("k2")>>), Service(<<B58("k2")>>, <<>>)>>)),
    JSON(Document("out-of-band", "broken", NoService,
          <<Service(<<Did("k1"), BrokenKey("k2"), Did("k2")>>, <<>>)>>)),
    JSON(Document("other", "unknown", Service(<<B58("k1")>>, <<>>), <<>>)),
    URL(NoDocument, NoDocument) }
==============================================================================
