---------------------------- MODULE MCReachyLink ----------------------------
(***************************************************************************)
(* The parts of the Reachy side that share no state, in one run: the link  *)
(* between Core and Edge, the device, the camera, the queues and the audio *)
(* streams.  The first state chooses the part that moves.                  *)
(***************************************************************************)
EXTENDS ReachyLink, ReachyDevice, ReachyMedia

VARIABLE part

edgeVars == <<vars, deviceVars, mediaVars, part>>

\* Bound: a crash or shutdown comes while another connection can follow it.
CrashIsFollowed == crashes' # crashes => conns < MaxConn

EdgeInit ==
    /\ Init /\ DeviceInit /\ MediaInit /\ part \in {"link", "device", "camera", "queues", "audio"}
    /\ part # "device" => ~playing /\ moving = {}

EdgeSystemNext ==
    /\ UNCHANGED part
    /\ \/ part = "link" /\ Next /\ CrashIsFollowed /\ UNCHANGED <<deviceVars, mediaVars>>
       \/ part = "device" /\ DeviceNext /\ UNCHANGED <<vars, mediaVars>>
       \/ /\ part \notin {"link", "device"} /\ MediaNext /\ UNCHANGED <<vars, deviceVars>>
          /\ part # "camera" => UNCHANGED <<camera, ticket, call>>
          /\ part # "queues" => UNCHANGED <<queue, reader, puts>>
          /\ part # "audio" => UNCHANGED consumer

EdgeSpec == EdgeInit /\ [][EdgeSystemNext]_edgeVars

=============================================================================
