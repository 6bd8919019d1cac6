SPECIFICATION Spec
CONSTANTS
  Mac = {m1}
  NoMac = NoMac
  Id = {i1, i2}
  NoId = NoId
  Password = {p1, p2}
  DEFAULT_PASSWORD = p1
  Slot = {s1, s2, s3}
  AtMost <- MCAtMost
SYMMETRY Symmetry
INVARIANT TypeOK
PROPERTY BlockSticks ShutOut AnswerLives TokenKept PasswordInForce
