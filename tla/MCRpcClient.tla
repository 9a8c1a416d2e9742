---------------------------- MODULE MCRpcClient -----------------------------
(* RpcClient with a few short programs that use it. *)
EXTENDS RpcClient

SmallPrograms ==
  { <<"promptAndWait", "promptAndWait", "get_state">>,
    <<"waitForIdle", "waitForIdle", "promptAndWait">>,
    <<"promptAndWait", "get_state", "new_session">>,
    <<"promptAndWait", "prompt">>,
    <<"new_session", "new_session">>, <<"new_session", "prompt">>,
    <<"prompt", "waitForIdle", "waitForIdle">>,
    <<"prompt", "abort">> }
=============================================================================
