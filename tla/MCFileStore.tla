---------------------------- MODULE MCFileStore ----------------------------
(* A photo and what is left of it once its metadata is stripped; each upload
   sends either.  Two posts name the same file. *)
EXTENDS FileStore, TLC

CONSTANTS u1, u2, photo, stripped, p1, p2

MCProcessed == (photo :> stripped) @@ (stripped :> stripped)

MCFileOf == (p1 :> u1) @@ (p2 :> u1)

=============================================================================
