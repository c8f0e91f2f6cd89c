SPECIFICATION Spec
CONSTANTS
  Paths = {"/a", "/b"}
  Hooks = {"h"}
  Ids = {"x", "y"}
  Packages = {"p", "q"}
  None = None
  Requests <- MCRequests
INVARIANT LinksToOrigin
