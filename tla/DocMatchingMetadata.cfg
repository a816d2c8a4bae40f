CONSTANTS
  t1 = t1  t2 = t2  q1 = q1  q2 = q2
  Tokens = {t1, t2}
  Requests = {q1, q2}
  Clients <- MCClients
  Nets = {"n1", "n2"}
  Hosts = {1, 2}
  Agents = {"Browser", "Script"}
  Countries = {"RU", "US"}
  None = None
SYMMETRY Symmetry
CHECK_DEADLOCK FALSE
SPECIFICATION MetadataSpec
INVARIANT NoReportWhenMetadataMatches
