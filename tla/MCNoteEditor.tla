---------------------------- MODULE MCNoteEditor ----------------------------
EXTENDS NoteEditor
=============================================================================
