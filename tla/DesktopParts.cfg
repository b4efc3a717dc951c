SPECIFICATION PartsSpec
CONSTANTS
  r1 = r1
  HttpRoutes = {r1}
  MaxOps = 4
  s1 = s1
  s2 = s2
  Sessions = {s1, s2}
  Share = Share
  Nothing = Nothing
  w1 = w1
  w2 = w2
  Windows = {w1, w2}
  Unsteady = {w1}
  MaxClients = 2
  NoClient = NoClient
  MaxRequests = 2
  MaxNotices = 3
  MaxAlerts = 3
  NoticeSeconds = 2
  e1 = e1
  e2 = e2
  Extensions = {e1, e2}
  Version2 = {e2}
  Faulty = {e2}
  MaxPayloads = 1
  i1 = i1
  i2 = i2
  t1 = t1
  t2 = t2
  Installs = {i1, i2}
  Tarballs = {t1, t2}
  Concurrency = 1
  MaxStarts = 4
  k1 = k1
  k2 = k2
  q1 = q1
  q2 = q2
  SoundKinds = {k1, k2}
  Sources = {q1, q2}
  MaxGeneration = 3
  p1 = p1
  p2 = p2
  Paths = {p1, p2}
  FirstPath = p1
  Invalid = {2}
  NoFile = NoFile
  TornExam = TornExam
  MaxContent = 2
  MaxEditorOps = 2
INVARIANT PartsTypeOK
INVARIANT ServesAsAsked
INVARIANT SessionsMatchWindows
INVARIANT NoticesAreShown
INVARIANT RunsWhatIsActive
INVARIANT UnpacksWhatItVerified
INVARIANT SoundsAreRight
INVARIANT WorkIsKept
PROPERTY EverythingEnds
PROPERTY CallsSettleRightly
CHECK_DEADLOCK FALSE
