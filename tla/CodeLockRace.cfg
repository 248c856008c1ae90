\* The threads take turns and are preempted as in the program; one code, one password.
CONSTANTS
  Sys0 = "sys0"
  Auth0 = "auth0"
  Empty = "empty"
  Mixed = "mixed"
  Zero = "zero"
  NoCode = "nocode"
  Password = {"sys0", "auth0", "empty"}
  Usable = {"sys0"}
  Code = {"zero", "c1", "c2"}
  AppCodes = {"c2"}
  OldCodes = {"c1"}
  SysEntry = {"c1"}
  AuthEntry = {"empty"}
  NewSys = {"sys0"}
  NewAuth = {"sys0"}
  Overlap = TRUE
  Early = FALSE
  Fresh = FALSE
SPECIFICATION Spec
PROPERTIES CodeOpensOnce
