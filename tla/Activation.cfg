SPECIFICATION Spec
CONSTANTS
  Host = {h1, h2}
  FlagValues = {{}, {"not_saved"}, {"not_saved", "agent_owned"}, {"not_saved", "not_required"}}
  MaxActivations = 2
  None = None
  Empty = Empty
INVARIANTS TypeOK CookieFresh CookieFits LaunchFollowsEditor EditorShowsTransport
PROPERTIES SignOnSuffices
