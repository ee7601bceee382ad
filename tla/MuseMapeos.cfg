SPECIFICATION Spec
CONSTANTS
  p1 = p1
  p2 = p2
  p3 = p3
  fa = fa
  fb = fb
  v1 = v1
  v2 = v2
  Nada = Nada
  Programas = {p1, p2, p3}
  Valores = {v1}
  path <- MCPath
  flags <- MCFlags
  paginasDe <- MCPaginas
  Accesos <- MCAccesos
  Descargas <- MCDescargas
  Coordinados = TRUE
  SyncSoloUsadas = TRUE
  g_cantidadFrames = 5
  lengthPagina = 2
CHECK_DEADLOCK FALSE
INVARIANTS
  TypeOKMapas
  MapeosConsistentes
  CierraElUltimo
  MarcosExactos
PROPERTIES
  ImplementaImagenes
