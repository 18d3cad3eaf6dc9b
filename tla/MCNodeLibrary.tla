--------------------------- MODULE MCNodeLibrary ---------------------------
(* A TLC instance of the node library and of the streams, each over an      *)
(* executor of its own.  The ways to build the library's graph between them *)
(* have every gate, both routers and each way to start the gate.            *)
EXTENDS NodeLibrary, Streams

VARIABLE side

Built(gate, take, bootstrap, init) ==
  [gate |-> gate, take |-> take, bootstrap |-> bootstrap, init |-> init]

MCConfigs == {Built("and", TRUE, FALSE, FALSE), Built("and", FALSE, FALSE, TRUE),
              Built("or", TRUE, FALSE, TRUE),   Built("or", FALSE, TRUE, FALSE),
              Built("xor", FALSE, FALSE, FALSE), Built("xor", TRUE, TRUE, FALSE)}

\* The variables of the side that is not looked at
LibIdle ==
  /\ value = [n \in {Left, Right, Gate, Pick} |-> FALSE]
  /\ use_primary = [n \in Switches |-> FALSE]
  /\ items = [n \in {Stream, OutA, OutB, Merge} |-> <<>>]
  /\ cache_epoch = [k \in Outputs |-> 0]
  /\ unrouted = <<>> /\ batch = <<>>
  /\ config = Built("or", FALSE, FALSE, FALSE)

StreamIdle ==
  /\ by_value = FALSE
  /\ push_data = [f \in Feeds |-> <<>>] /\ push_toggle = FALSE
  /\ notified = {} /\ pushed = 0
  /\ data = [n \in VecNodes |-> <<>>] /\ toggle = FALSE /\ from_a = FALSE
  /\ sent = <<>> /\ emitted = <<>>

SidesInit ==
  \/ side = "library" /\ LibInit /\ StreamIdle
  \/ side = "streams" /\ StreamInit /\ LibIdle

SidesNext ==
  /\ \/ side = "library" /\ LibNext /\ UNCHANGED stream_vars
     \/ side = "streams" /\ StreamNext /\ UNCHANGED lib_vars
  /\ UNCHANGED side

SidesSpec == SidesInit /\ [][SidesNext]_<<vars, lib_vars, stream_vars, side>>
=============================================================================
