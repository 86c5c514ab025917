----------------------- MODULE MCRecordingController -----------------------
EXTENDS RecordingController
============================================================================
