SPECIFICATION FairSpec
CONSTANTS
    c1 = c1  c2 = c2  c3 = c3
    t1 = t1  t2 = t2  t3 = t3
    s1 = s1  s2 = s2  k1 = k1  k2 = k2
    Keys = {k1}
    NoKey = NoKey
    HostMask <- Pools
    Rosters <- NoRosters
    Conns = {c1, c3}
    Http2 = {c3}
    Shards = {s1}
    ShardOf <- FirstShard
    CertKey <- OpenKey
    Tunnels = {t1, t2, t3}
    ConnOf <- TwoOnFirst
    Reader = s1
    MaxTunnels = 1
    NoTunnel = NoTunnel
    NoIdentity = NoIdentity
    NoRoster = NoRoster
    NoPacket = NoPacket
PROPERTY
    LeasesReturned
CHECK_DEADLOCK FALSE
