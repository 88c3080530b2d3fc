SPECIFICATION FairSpec
CONSTANTS
    h1 = h1
    h2 = h2
    w1 = w1
    w2 = w2
    i1 = i1
    ann = ann
    Txs <- MCTxs
    Admins <- MCAdmins
    Workers <- MCWorkers
    NoTx = NoTx
    NoRow = NoRow
    Users = {bob}
    RoleNames = {viewer}
    Created = {viewer}
    Emails = {ann}
    Invites = {i1}
    Invitee <- MCInvitee
    NoInvite = NoInvite
    Nobody = Nobody
    Codes = {c1, c2}
    Overriding = {c2}
    Schemas = {"wide", "narrow"}
    FirstSchema = "wide"
    FirstCode = c0
    NonBreaking <- MCNonBreaking
    NoTag = NoTag
    MaxSteps = 2
    Submitted = {c1}
    MaxCalls = 3
    MaxAlters = 2
    MaxWork = 4
CHECK_DEADLOCK FALSE
INVARIANTS RolesFollowTrail InviteSpentOnce OverrideAuditedOnce
           ObservationsOnRecord ApprovalSeesAll
PROPERTIES EveryTransactionEnds
