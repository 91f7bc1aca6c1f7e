--------------------------- MODULE MCAsyncPipeline ---------------------------
(* Instances of the asynchronous pipeline: four buffers, of which three are to
   be enough.                                                              *)
EXTENDS AsyncPipeline

(* No number of frames, none at all, and fewer than are captured.           *)
AnyLimit == {Unlimited, 0, 2}

=============================================================================
