---------------------------- MODULE DeliveryStatus ----------------------------
(***************************************************************************)
(* What the life of a webhook delivery promises: an attempt may settle it  *)
(* one way or the other, a retry on request makes an unsuccessful one      *)
(* pending again, and success is final.                                    *)
(***************************************************************************)
CONSTANT Deliveries

VARIABLE status   \* delivery -> "pending", "succeeded" or "failed"

Moves == {<<"pending", "succeeded">>, <<"pending", "failed">>,
          <<"failed", "succeeded">>, <<"failed", "pending">>}

Init == status = [d \in Deliveries |-> "pending"]

Next == \E d \in Deliveries, s \in {"pending", "succeeded", "failed"} :
            /\ <<status[d], s>> \in Moves
            /\ status' = [status EXCEPT ![d] = s]

Spec == Init /\ [][Next]_status
===============================================================================
