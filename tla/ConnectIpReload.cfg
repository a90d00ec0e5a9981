SPECIFICATION Spec
CONSTANTS
    c1 = c1  c2 = c2  c3 = c3
    t1 = t1  t2 = t2  t3 = t3
    s1 = s1  s2 = s2  k1 = k1  k2 = k2
    Keys = {k1, k2}
    NoKey = NoKey
    HostMask <- Pools
    Rosters <- MoveRosters
    Conns = {c1, c2}
    Http2 = {c2}
    Shards = {s1}
    ShardOf <- FirstShard
    CertKey <- MoveKey
    Tunnels = {t1, t2, t3}
    ConnOf <- TwoOfFirst
    Reader = s1
    MaxTunnels = 2
    NoTunnel = NoTunnel
    NoIdentity = NoIdentity
    NoRoster = NoRoster
    NoPacket = NoPacket
INVARIANTS
    LeasesExclusive
    Inv
CHECK_DEADLOCK FALSE
