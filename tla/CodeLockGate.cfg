\* On a lock whose system password has never been set: what is tried at all.
CONSTANTS
  Sys0 = "sys0"
  Auth0 = "auth0"
  Empty = "empty"
  Mixed = "mixed"
  Zero = "zero"
  NoCode = "nocode"
  Password = {"sys0", "auth0", "empty", "p1"}
  Usable = {"sys0", "auth0", "p1"}
  Code = {"zero", "c1", "c2"}
  AppCodes = {"c1", "c2"}
  OldCodes = {}
  SysEntry = {"sys0", "empty", "p1", "c1", "c2"}
  AuthEntry = {"auth0", "empty", "p1"}
  NewSys = {"empty", "p1"}
  NewAuth = {"p1"}
  Overlap = FALSE
  Early = FALSE
  Fresh = TRUE
SPECIFICATION Spec
PROPERTIES CodeIsTried
