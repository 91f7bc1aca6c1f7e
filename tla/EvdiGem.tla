------------------------------- MODULE EvdiGem -------------------------------
(***************************************************************************)
(* The buffer objects of the evdi kernel module (evdi_gem.c): the pages of *)
(* an object, the count of those who pinned them, the kernel mapping, and  *)
(* what happens to them when the last reference goes.                      *)
(*                                                                         *)
(* An operation is a function of the record of one object; one that may    *)
(* fail gives the set of its outcomes.  An imported object that is mapped  *)
(* by its exporter is "imported"; an amdgpu object is imported too, but    *)
(* evdi maps its pages itself.                                             *)
(***************************************************************************)
EXTENDS Integers

CONSTANT Kind           \* of each object: "native", "imported" or "amdgpu"

Objects == DOMAIN Kind

(* struct evdi_gem_object; references is the count of the DRM core, maps the
   number of kernel mappings that exist (vmapping points to the last).      *)
GemObjects == [references : Nat, pages : BOOLEAN, pages_pin_count : Nat,
               vmapping : BOOLEAN, maps : Nat, mmapped : Nat, exported : Nat]

IsImported(o) == Kind[o] # "native"

(* An allocated object has one reference and no pages; an import brings the
   array of its pages with it.                                              *)
evdi_gem_alloc_object(o) ==
    [references |-> 1, pages |-> IsImported(o), pages_pin_count |-> 0,
     vmapping |-> FALSE, maps |-> 0, mmapped |-> 0, exported |-> 0]

evdi_drm_gem_object_use_import_attach(o) == Kind[o] = "imported"

Done(b)   == [ok |-> TRUE,  object |-> b]
Failed(b) == [ok |-> FALSE, object |-> b]

(* drm_gem_get_pages may fail, and always does for an import.               *)
evdi_gem_get_pages(o, b) ==
    IF b.pages THEN {Done(b)}
    ELSE {Failed(b)} \cup IF IsImported(o) THEN {} ELSE {Done([b EXCEPT !.pages = TRUE])}

evdi_gem_put_pages(b) == [b EXCEPT !.pages = FALSE]

(* Only the first pin gets the pages; its failure is taken back.            *)
evdi_pin_pages(o, b) ==
    LET pinned(x) == [x EXCEPT !.pages_pin_count = @ + 1]
    IN  IF b.pages_pin_count > 0 THEN {Done(pinned(b))}
        ELSE {IF r.ok THEN Done(pinned(r.object)) ELSE r : r \in evdi_gem_get_pages(o, b)}

evdi_unpin_pages(b) ==
    LET less == [b EXCEPT !.pages_pin_count = @ - 1]
    IN  IF less.pages_pin_count = 0 THEN evdi_gem_put_pages(less) ELSE less

(* A mapping that fails after the pin keeps the pin.                        *)
evdi_gem_vmap(o, b) ==
    LET mapped(x) == [x EXCEPT !.vmapping = TRUE, !.maps = @ + 1]
    IN  IF evdi_drm_gem_object_use_import_attach(o) THEN {Done(mapped(b)), Failed(b)}
        ELSE UNION {IF r.ok THEN {Done(mapped(r.object)),
                                  Failed([r.object EXCEPT !.vmapping = FALSE])}
                            ELSE {r} : r \in evdi_pin_pages(o, b)}

evdi_gem_vunmap(o, b) ==
    LET gone == [b EXCEPT !.vmapping = FALSE, !.maps = IF b.vmapping THEN @ - 1 ELSE @]
    IN  IF evdi_drm_gem_object_use_import_attach(o) THEN gone ELSE evdi_unpin_pages(gone)

evdi_gem_free_object(o, b) ==
    LET unmapped == IF b.vmapping THEN evdi_gem_vunmap(o, b) ELSE b
    IN  IF unmapped.pages THEN evdi_gem_put_pages(unmapped) ELSE unmapped

drm_gem_object_get(b) == [b EXCEPT !.references = @ + 1]

drm_gem_object_put(o, b) ==
    LET less == [b EXCEPT !.references = @ - 1]
    IN  IF less.references = 0 THEN evdi_gem_free_object(o, less) ELSE less

(* The ioctl that prepares a mapping by user space pins the pages and never
   unpins them; for an import it fails and keeps the pin all the same.      *)
evdi_gem_mmap(o, b) ==
    {IF r.ok /\ ~IsImported(o) THEN Done([r.object EXCEPT !.mmapped = @ + 1])
                               ELSE Failed(r.object) : r \in evdi_pin_pages(o, b)}

evdi_prime_pin(o, b) == {IF r.ok THEN Done([r.object EXCEPT !.exported = @ + 1]) ELSE r :
                            r \in evdi_pin_pages(o, b)}
evdi_prime_unpin(b)  == evdi_unpin_pages([b EXCEPT !.exported = @ - 1])
==============================================================================
