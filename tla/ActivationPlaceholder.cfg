SPECIFICATION Spec
CONSTANTS
  Host = {h1, h2}
  FlagValues = {{"not_saved"}}
  MaxActivations = 1
  None = None
  Empty = Empty
INVARIANT PlaceholderHarmless
