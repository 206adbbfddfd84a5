SPECIFICATION Spec
CONSTANTS
  None = None
  Worlds <- AllWorlds
INVARIANTS DeserializedApart LookupsAgree ResolvedAsStatic EqualIsSubset
PROPERTIES ChangesAreCarried SerializedStayApart
