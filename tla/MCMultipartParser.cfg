SPECIFICATION Spec
CONSTANTS
  Inputs <- All
  Letters = {"a", "b", "x", "v"}
INVARIANT LookbehindFaithful
INVARIANT PartsExact
INVARIANT HeadersExact
INVARIANT ParsedToTheEnd
INVARIANT CallbackOrder
CHECK_DEADLOCK FALSE
