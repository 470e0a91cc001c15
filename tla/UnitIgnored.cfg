\* Documents that state the same number of different units.
SPECIFICATION Spec
CONSTANTS
  Absent = Absent
  k1 = k1
  k2 = k2
  d1 = d1
  d2 = d2
  Records = {k1, k2}
  ParcelKeys = {parcel}
  Documents = {d1, d2}
  Names <- MCNames
  Honorifics <- MCHonorifics
  SqMetres <- MCSqMetres
  Readings <- MCReadings
  OcrTexts <- MCOcrTexts
  RecordFiles <- MCRecordFiles
  Parcels <- MCParcels
  MaxRuns = 2
SYMMETRY AnyDocument
PROPERTIES
  DisagreementIsNeverSilent
