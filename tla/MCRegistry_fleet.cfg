SPECIFICATION OneByOneSpec
CONSTANTS
  Nil = Nil
  f1 = f1
  f2 = f2
  g1 = g1
  g2 = g2
  k1 = k1
  new1 = new1
  new2 = new2
  box = box
  local = local
  a1 = a1
  a2 = a2
  Agents = {g1, g2}
  Tokens = {k1}
  Minted <- MintedBy
  EnvFiles <- EnvFilesSeen
  Names = {box, local}
  Local = local
  Addrs = {a1, a2}
  Fronts = {f1, f2}
  Fleets <- FleetsSeen
INVARIANTS
  AgentAndClientsAgree
  SavedFleetIsLoaded
  KeysGoWhereGiven
  LocalKeyOpensAgent

SYMMETRY FrontSymmetry
