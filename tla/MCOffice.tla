------------------------------- MODULE MCOffice -------------------------------
(* Instances of Office for TLC. *)
EXTENDS Office

CONSTANTS a, d, e, f                     \* users of Notices
CONSTANTS adm, exp, trk, rec, dsp, drv   \* users of Templates
CONSTANTS A, B                           \* instances of DriverLocation

DirectoryInstances == INSTANCE MCUserDirectory WITH Mixes <- {}
NoticeInstances == INSTANCE MCNotices WITH Mixes <- {}
TemplateInstances == INSTANCE MCTemplates WITH Mixes <- {}
BoardInstances == INSTANCE MCLoadBoard WITH Mixes <- {}
LocationInstances == INSTANCE MCDriverLocation WITH Mixes <- {}

DirectoryMixed == DirectoryInstances!Mixed
NoticeMixed == NoticeInstances!Mixed
TemplateMixed == TemplateInstances!Mixed
BoardMixed == BoardInstances!Mixed
LocationMixed == LocationInstances!Mixed

=============================================================================
