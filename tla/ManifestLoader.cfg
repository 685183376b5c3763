SPECIFICATION Spec
CONSTANTS
  Root = "main"
  Files = {"f", "out"}
  Outside = {"out"}
  Urls = {"u", "v"}
  UrlOf <- RelativeTo
  Names = {"a", "b"}
  Needs <- ANeedsB
  Documents <- AllDocuments
  MaxExtendsDepth = 3
  MaxChain = 2
INVARIANTS
  ChainIsSound
  MergeIsExact
  OverlayIsSafe
CHECK_DEADLOCK FALSE
