SPECIFICATION Spec
CONSTANTS
  None = None
  cli = cli  srv = srv  be = be  eph = eph  web = web
  Line <- MCLine
  Export <- MCExport
  Packet <- MCPacket
  Flow <- MCFlow
  Query <- MCQuery
  MaxPackets = 4
  MaxCaptured = 4
  Tune <- MCTune
  FeedbackRow <- MCFeedbackRow
  User <- MCUser
  Event <- MCEvent
  LiveFlow <- MCLiveFlow
  Incident <- MCIncident
  Result <- MCResult
  Judgements <- MCJudgements
  Baselines <- MCBaselines
  Rules <- MCRules
  Monitors <- MCMonitors
  Target <- MCTarget
  DigestRow <- MCDigestRow
  PageSize = 1
  Paged <- MCPaged
  MaxAsked = 2
  Now = 8
  MaxRows <- MCMaxRows
INVARIANTS PrefixNeverMatters ActionsAgree OwnTemplate HopsAgree ReportsAgree  NoActionMeansNone
PROPERTIES DiffsAgree VerdictGrows EvidenceNeverCalms
CHECK_DEADLOCK FALSE
