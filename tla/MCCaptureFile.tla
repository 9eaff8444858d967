--------------------------- MODULE MCCaptureFile ---------------------------
\* Small instances of CaptureFile.
EXTENDS CaptureFile
=============================================================================
