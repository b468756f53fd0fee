------------------------------- MODULE MCContents -------------------------------
(* Contents with a thread that reads and one that changes the file.        *)
EXTENDS Contents, TLC

CONSTANTS reader, writer

SomePrograms == {
  (reader :> {"contents"}) @@ (writer :> {"stat", "pwrite", "ftruncate"}),
  (reader :> {"fgetxattr"}) @@ (writer :> {"fsetxattr", "fremovexattr"}),
  (reader :> {"flistxattr"}) @@ (writer :> {"fsetxattr"}),
  (reader :> {"pread", "fstat"}) @@ (writer :> {"lseek", "fchmod"}) }

Buffers == <<1, 2>>
=============================================================================
