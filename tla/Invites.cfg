SPECIFICATION MCFairSpec
CONSTANTS
    Owner = Owner
    Joiner = Joiner
    OwnerApp = OwnerApp
    JoinerApp = JoinerApp
    JoinerRun = JoinerRun
    Home = Home
    Team = Team
    Invite = Invite
    None = None
    Devices = {Owner, Joiner}
    Callers = {OwnerApp, JoinerApp, JoinerRun}
    Namespaces = {Home, Team}
    Shared = {Team}
    InviteIDs = {Invite}
    DeviceOf <- MCDeviceOf
    Creator <- MCCreator
    Drawer <- MCDrawer
    MaxInviteTTL = 2
    MaxJoinRequestTTL = 2
    MaxTime = 2
    MaxEvents = 6
INVARIANTS
    TypeOK
    KeysAgree
    TokensAgree
    HonestRequestVerifies
PROPERTIES
    MembershipSettles
    AccessByInvite
