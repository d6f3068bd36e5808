CONSTANTS
  Part = {"containers"}
  Page = {"p1"}
  Rule = {"r1","i1"}
  Internal = {"i1"}
  Link = {"br0","eth0.5"}
  Vlan = {"eth0.5"}
  MaxRules = 2
  MaxBackends = 2
  Package = {"k1","k2"}
  Repo = {"a","b"}
  Vendor = "vendor"
  MaxLines = 6
  Updater = {"apt","dnf"}
  IniFile <- IniFiles
  User = {"root","u1"}
  Group = {"wheel","g1"}
  SystemGroup = {"wheel"}
  Container = {"c1"}
  Volume = {"v1"}
  CertName = {"n1","n2"}
  Material = {"m1","m2"}
  Cap = 1
  Stream = {"t1","t2"}
  OutRoom = 1
  Request = {"q1","q2","q3"}
  MaxAttempts = 2
  Window = 3
  Gateway = {"ga","gb"}
  GatewayId = {"id1","id2","id3"}
  Daemon = {"sshd","chronyd","timesyncd","resolved","kdump"}
  Setting = {"s1","s2"}
  Key = {"k1","k2"}
  MaxKeys = 3
  WebSocket = {"w1","w2","w3"}
  NoSocket = "none"
  MaxFaults = 2
SPECIFICATION Spec
INVARIANT OwnRowsAct
CHECK_DEADLOCK FALSE
