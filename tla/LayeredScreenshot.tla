-------------------------- MODULE LayeredScreenshot --------------------------
(***************************************************************************)
(* The layered-screenshot plugin (layered-screenshot.cpp), which sends the *)
(* views of the compositor's view list layer by layer, and the client      *)
(* (layered-screenshooter.cpp) that saves each in a file of its own.       *)
(* Neither keeps any state; a directory of files is a function from the    *)
(* number in the file's name to the view that is in the file.              *)
(***************************************************************************)
EXTENDS CompositorManagement, SequencesExt

(* the views of a layer, each appended to the layer's vector *)
In(l, views) ==
    FoldLeft(LAMBDA vector, v : IF v.layer = l THEN Append(vector, v) ELSE vector,
             <<>>, views)

(* shoot: the map from layers to their views, in the order of the list *)
layers == [l \in {view_list[i].layer : i \in DOMAIN view_list} |-> In(l, view_list)]

(* The map is unordered, and every layer is sent with the same order field:*)
(* the screenshot may have the layers in any order.                        *)
Screenshots ==
    {[i \in DOMAIN order |-> layers[order[i]]] : order \in SetToSeqs(DOMAIN layers)}

(* Mutant: the files of each layer are counted from zero. *)
SaveLayerFromZero(acc, layer) ==
    LET numbers == 0..(Len(layer) - 1)
    IN [counter |-> acc.counter + Len(layer),
        files |-> [n \in DOMAIN acc.files \cup numbers |->
                     IF n \in numbers THEN layer[n + 1] ELSE acc.files[n]]]

(* The inner loop of on_done: each surface of the layer, to the next file.  *)
SaveLayer(acc, layer) ==
    LET numbers == acc.counter..(acc.counter + Len(layer) - 1)
    IN [counter |-> acc.counter + Len(layer),
        files |-> [n \in DOMAIN acc.files \cup numbers |->
                     IF n \in numbers THEN layer[n - acc.counter + 1] ELSE acc.files[n]]]

(* on_done: surface-0.webp and so on, over what was there before *)
on_done(screenshot, files) ==
    FoldLeft(SaveLayer, [counter |-> 0, files |-> files], screenshot).files

(* Whatever order the map has, the client saves every view of every layer   *)
(* in a file of its own and none twice, and the views of a layer in the     *)
(* order they are stacked in.                                               *)
EveryViewSaved ==
    \A screenshot \in Screenshots :
      LET files == on_done(screenshot, <<>>)
          saved == [i \in 1..Len(view_list) |-> files[i - 1]]
      IN /\ DOMAIN files = 0..(Len(view_list) - 1)
         /\ \A l \in DOMAIN layers : In(l, saved) = In(l, view_list)

=============================================================================
