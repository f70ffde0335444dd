\* A tunnelled SSH session whose main connection fails after the tunnel
\* is up, and the user reconnects.
SPECIFICATION Spec
CONSTANTS
  MaxRetries = 2
  TunnelModes <- MC_TunnelOnly
  SshModes <- MC_SshOnly
INVARIANT ThreadHasTunnel
