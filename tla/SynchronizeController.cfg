\* Keep-up-to-date over a terminal that may lose its connection and
\* reconnect, with and without a tunnel: the reconnect loops and the
\* Connection refinement, with the controller's steps interleaved.
SPECIFICATION ComposedSpec
CONSTANTS
  MaxRetries = 3
  TunnelModes <- MC_TunnelModes
  SshModes <- MC_SshModes
INVARIANTS TypeOK StatusMatchesConnection
PROPERTIES ImplementsConnection AbortNotAskedAgain
