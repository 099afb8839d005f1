------------------------ MODULE MCOutputStreamPoller ------------------------
(* Packets before, in and after the range of timestamps, alone and in      *)
(* batches, in and out of order.                                           *)
EXTENDS OutputStreamPoller

MCBatches == {<<t>> : t \in PreStream .. PostStream} \cup {<<0, 1>>, <<1, 0>>, <<1, 2>>}
=============================================================================
