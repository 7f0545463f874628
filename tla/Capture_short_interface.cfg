\* The two entry points side by side, short interface blocks included.
SPECIFICATION Spec
CONSTANTS
  Radix <- MCRadix
  someip_ports <- MCSomeipPorts
  someip_tlv_ports <- MCTlvPorts
  Index8 = 256
  kNoToken = 0
  TickModulus = 1000
  Decoder <- MCDecoder
  ext_guard <- MCExtGuard
  Captures <- MCCaptures
  Contents <- MCContents
  Config <- MCConfig
  Settings <- MCSettings
INVARIANT EntryPointsAgree
