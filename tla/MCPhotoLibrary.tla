---------------------------- MODULE MCPhotoLibrary ----------------------------
\* Small instances of PhotoLibrary for TLC.
EXTENDS PhotoLibrary

=============================================================================
