CONSTANTS
  Hosts = {h1, h2}
  h1 = h1
  h2 = h2
  MAX_PDU = 1
  Confs <- PassConfs
SPECIFICATION Spec
INVARIANTS ClientsExact ServedToTheEnd ErrorsTold
PROPERTIES Ends
