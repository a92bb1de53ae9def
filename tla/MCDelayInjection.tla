-------------------------- MODULE MCDelayInjection --------------------------
(***************************************************************************)
(* Calls of Gate A's prefill: a matrix product in one kernel or in three,  *)
(* torch.where nesting scalar_tensor, a fill of its own and an empty one,  *)
(* an in-place addition, which a dispatch mode sees out of place, and a    *)
(* copy the host waits for or does not, and an explicit synchronise.       *)
(***************************************************************************)
EXTENDS DelayInjection

Made(api, chain) == [api |-> api, chain |-> chain]
Call(shows, issues) == [kind |-> "call", shows |-> shows, issues |-> issues]

MM == Made("launch", <<"mm">>)

MCCalls ==
    {Call(<<"mm">>, <<MM>>),
     Call(<<"mm">>, <<MM, MM, MM>>),
     Call(<<"scalar_tensor", "where">>,
          <<Made("launch", <<"where", "scalar_tensor", "fill_">>),
            Made("launch", <<"where", "where">>)>>),
     Call(<<"fill_">>, <<Made("launch", <<"fill_">>)>>),
     Call(<<"fill_">>, <<>>),
     Call(<<"add">>, <<Made("launch", <<"add_">>)>>),
     Call(<<"copy_">>, <<Made("copy", <<"copy_">>)>>),
     Call(<<"copy_">>, <<Made("copy", <<"copy_">>), Made("wait", <<"copy_">>)>>),
     Call(<<>>, <<Made("wait", <<>>)>>)}

MCOutOfPlace ==
    [n \in {"add_", "fill_", "copy_"} |->
        CASE n = "add_" -> "add" [] n = "fill_" -> "fill" [] n = "copy_" -> "copy"]
=============================================================================
