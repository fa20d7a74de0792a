-------------------------------- MODULE MCFiles --------------------------------
(* Instances of Files for TLC. *)
EXTENDS Files

\* The directories that tarfs/src/Rules.mk makes
Tree == {<<>>, <<"bin">>, <<"dev">>, <<"mnt">>, <<"mnt", "tarfs">>}

init == <<"bin", "init">>

\* The image as it is built, and with the files that kinit mounts devices on
WithoutDevices == {init}
WithDevices    == {init, <<"dev", "debug">>, <<"dev", "kbdraw">>}
Both == {WithoutDevices, WithDevices}

Shell   == {<<"dev", ".", "..", "bin">>}
Stats   == {<<"dev", "kbdraw">>, <<"bin">>}

\* Through both mounts of the image and across them, and to nothing
Places  == {<<>>, init, <<"dev", "debug">>, <<"mnt", "tarfs", "bin">>,
            <<"bin", ".", "..", "dev", "kbdraw">>, <<"mnt", "tarfs", "bin", "..", "..">>,
            <<"mnt", "tarfs", "dev", "debug">>, <<"bin", "init", "..">>, <<"dev", "init">>}
================================================================================
