--------------------------- MODULE MCStorageClient ---------------------------
(* StorageClient on a small instance: one session, since a session changes  *)
(* nothing that another one reads.                                         *)
EXTENDS StorageClient

Ask(command, storageClient, named) ==
  [command |-> command, storageClient |-> storageClient, named |-> named]

\* Each command with a StorageClient or a group named in its own way, and the
\* two together.
CommandLines ==
  { Ask("subvolume ls", TRUE, "nowhere"),
    Ask("subvolume delete", TRUE, "argument"),
    Ask("subvolume delete", FALSE, "flag"),
    Ask("subvolume delete", FALSE, "argument"),
    Ask("snap ls", FALSE, "nowhere"),
    Ask("snap delete", TRUE, "flag"),
    Ask("snap delete", FALSE, "flag") }
=============================================================================
