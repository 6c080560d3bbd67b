SPECIFICATION BothSpec
CONSTANTS
  summary = summary  lease = lease
  builder = builder  indexer = indexer  mirror = mirror
  thin = thin  expire = expire  reconcile = reconcile
  Items = {summary, lease}
  KindOf <- MCKindOf
  Pinned = {}
  Cited = {}
  Writers = {builder, indexer, mirror}
  Saves <- MCSaves
  Writes <- MCWrites
  Jobs = {thin, expire, reconcile}
  Task <- MCTask
  Subject <- MCSubject
  MaxRuns = 2
  MaxFaults = 1
  message = message  decision = decision  note = note  anchor = anchor  chunk = chunk
  turn = turn  apply = apply  upload = upload
  CItems = {message, decision, note, anchor, chunk}
  Batches = {turn, apply, upload}
  Kind <- MCKind
  Parts <- MCParts
  Content <- MCContent
  Type <- MCType
  Confidence <- MCConfidence
  Override <- MCOverride
  Contradict = {{"yes", "no"}}
  AttenuationAge = 1  AlphaPurge = 2  Window = 20  MaxDay = 3
CHECK_DEADLOCK FALSE
INVARIANTS StoresAgree ContradictionsAreFlagged
PROPERTIES ReconcileIsRight ForgettingIsEarned
